---------------------------- MODULE Spec2Model ----------------------------
(***************************************************************************)
(* Verilated runtime word-array arithmetic (include/verilated_funcs.h).    *)
(*                                                                         *)
(* Representation.  A machine word is modelled by the set of positions of  *)
(* its one bits: an IData or EData is a subset of 0..31, a QData of       *)
(* 0..63.  A wide value is a function from word index 0..n-1 to an EData,  *)
(* least significant word first, as in the source.  With this             *)
(* encoding & is \cap, | is \cup, ~ is complement within the type's bit    *)
(* range, << and >> move positions and drop what leaves the type, and      *)
(* + - * / % are the binary algorithms of the machine at the type's width. *)
(* Bit counts, widths, word indices and shift amounts are integers.        *)
(***************************************************************************)
EXTENDS Integers, Sequences, FiniteSets, TLC

VARIABLES pc, arg, out

vars == <<pc, arg, out>>

\* ------------------------------------------------------------------------
\* Machine types

\* 32ULL / 0xffffffffULL word split in the carry chains
VL_EDATASIZE == 32
VL_IDATASIZE == 32
VL_QUADSIZE == 64
\* VL_SIZEBITS_E: mask of the bit-in-word part of a bit number
VL_SIZEBITS_E == 31

IBits == 0 .. (VL_IDATASIZE - 1)
QBits == 0 .. (VL_QUADSIZE - 1)

Max(S) == CHOOSE x \in S : \A y \in S : y <= x

\* x << k and x >> k in a type of n bits (0 <= k < n)
Shl(x, k, n) == {i + k : i \in {j \in x : j + k < n}}
Shr(x, k) == {i - k : i \in {j \in x : j >= k}}
\* ~x in a type of n bits
Not(x, n) == (0 .. (n - 1)) \ x

\* The value of a bit set below 2^31, and back
RECURSIVE ToNat(_)
ToNat(x) ==
    IF x = {} THEN 0
    ELSE LET i == CHOOSE j \in x : TRUE
         IN  2 ^ i + ToNat(x \ {i})

FromNat(v) == {i \in 0 .. 30 : (v \div (2 ^ i)) % 2 = 1}

\* The value an expression denotes, computed once: S is a singleton
The(S) == CHOOSE s \in S : TRUE

\* The machine adder, x + y + c modulo 2^n, worked in limbs of LimbBits bits
\* so that every intermediate sum is a small integer
LimbBits == 15
Limb(x, j) == ToNat({b - LimbBits * j : b \in {d \in x : d \div LimbBits = j}})

RECURSIVE AddLimbs(_, _, _, _, _)
AddLimbs(x, y, c, j, n) ==
    IF LimbBits * j >= n THEN {}
    ELSE The({{LimbBits * j + b : b \in FromNat(s % (2 ^ LimbBits))}
                \cup AddLimbs(x, y, s \div (2 ^ LimbBits), j + 1, n)
              : s \in {Limb(x, j) + Limb(y, j) + c}})

AddC(x, y, c, n) ==
    The({{b \in 0 .. (n - 1) : b \in s}
         : s \in {AddLimbs(a, d, c, 0, n) : a \in {x}, d \in {y}}})
Add(x, y, n) == AddC(x, y, 0, n)
\* x - y modulo 2^n
Sub(x, y, n) == AddC(x, Not(y, n), 1, n)
\* -x modulo 2^n
Neg(x, n) == AddC({}, Not(x, n), 1, n)
\* unsigned x < y: the highest bit in which they differ is y's
Lt(x, y) == \E i \in y \ x : \A j \in x \ y : j < i

\* x * y modulo 2^n: the sum of y << i over the bits lo..hi of x
RECURSIVE MulRange(_, _, _, _, _)
MulRange(x, y, lo, hi, n) ==
    IF x \cap (lo .. hi) = {} THEN {}
    ELSE IF lo = hi THEN Shl(y, lo, n)
    ELSE LET mid == (lo + hi) \div 2
         IN  Add(MulRange(x, y, lo, mid, n), MulRange(x, y, mid + 1, hi, n), n)

Mul(x, y, n) == The({MulRange(a, d, 0, n - 1, n) : a \in {x}, d \in {y}})

\* unsigned x / y and x % y (y # 0) by binary long division from the top
\* bit of x down; q and r are the quotient and remainder so far.  The
\* remainder stays below y, so its double is held in n + 1 bits
DivBit(x, y, q, r, i, n) ==
    The({IF Lt(r2, y) THEN <<q, r2>>
         ELSE <<{b \in 0 .. (n - 1) : b \in q \/ b = i}, Sub(r2, y, n + 1)>>
         : r2 \in {{b \in 0 .. n : (b > 0 /\ (b - 1) \in r) \/ (b = 0 /\ i \in x)}}})

RECURSIVE DivRange(_, _, _, _, _, _, _)
DivRange(x, y, q, r, hi, lo, n) ==
    IF hi < lo THEN <<q, r>>
    ELSE IF hi = lo THEN DivBit(x, y, q, r, hi, n)
    ELSE The({DivRange(x, y, st[1], st[2], ((lo + hi + 1) \div 2) - 1, lo, n)
              : st \in {DivRange(x, y, q, r, hi, (lo + hi + 1) \div 2, n)}})

DivMod(x, y, n) ==
    The({DivRange(a, d, {}, {}, IF a = {} THEN -1 ELSE Max(a), 0, n)
         : a \in {x}, d \in {y}})
UDiv(x, y, n) == DivMod(x, y, n)[1]
UMod(x, y, n) == DivMod(x, y, n)[2]

\* ------------------------------------------------------------------------
\* Word-array representation and masking

VL_BITWORD_E(bit) == bit \div VL_EDATASIZE
VL_BITBIT_E(bit) == bit % VL_EDATASIZE
VL_BITBIT_Q(bit) == bit % VL_QUADSIZE
VL_WORDS_I(nbits) == (nbits + (VL_EDATASIZE - 1)) \div VL_EDATASIZE

\* VL_MASK_I / VL_MASK_E: the low nbits % 32 bits, all ones when that is 0
VL_MASK_E(nbits) ==
    IF nbits % VL_EDATASIZE # 0 THEN 0 .. ((nbits % VL_EDATASIZE) - 1) ELSE IBits
VL_MASK_I(nbits) == VL_MASK_E(nbits)
VL_MASK_Q(nbits) ==
    IF nbits % VL_QUADSIZE # 0 THEN 0 .. ((nbits % VL_QUADSIZE) - 1) ELSE QBits

\* static_cast<IData>(q) and the high word q >> 32
LoWord(q) == q \cap IBits
HiWord(q) == Shr(q, VL_EDATASIZE)

\* The bits of a wide value as one numeral, and the words of a numeral
BitsOf(wp) == UNION {{VL_EDATASIZE * i + b : b \in wp[i]} : i \in DOMAIN wp}
WordsOf(bits, words) ==
    [i \in 0 .. (words - 1) |->
        {b - VL_EDATASIZE * i : b \in {c \in bits : c \div VL_EDATASIZE = i}}]

VL_SET_WQ(data) == [i \in 0 .. 1 |-> IF i = 0 THEN LoWord(data) ELSE HiWord(data)]
VL_SET_QW(lwp) == lwp[0] \cup Shl(lwp[1], VL_EDATASIZE, VL_QUADSIZE)

_vl_clean_inplace_w(obits, owp) ==
    [owp EXCEPT ![VL_WORDS_I(obits) - 1] = @ \cap VL_MASK_E(obits)]

\* ------------------------------------------------------------------------
\* Arithmetic: add

\* Seeded fault: the carry out of a word is dropped
VL_ADD_W_carry_dropped(carry) == {}
\* carry = (carry >> 32ULL) & 0xffffffffULL
VL_ADD_W_carry(carry) == Shr(carry, 32) \cap IBits

RECURSIVE VL_ADD_W_loop(_, _, _, _, _, _)
VL_ADD_W_loop(words, owp, lwp, rwp, carry, i) ==
    IF i >= words THEN owp
    ELSE LET c == Add(Add(carry, lwp[i], VL_QUADSIZE), rwp[i], VL_QUADSIZE)
         IN  VL_ADD_W_loop(words, [owp EXCEPT ![i] = c \cap IBits], lwp, rwp,
                           VL_ADD_W_carry(c), i + 1)

VL_ADD_W(words, owp, lwp, rwp) == VL_ADD_W_loop(words, owp, lwp, rwp, {}, 0)

\* ------------------------------------------------------------------------
\* Arithmetic: divide and modulus, one- and two-word forms

\* The host's division trap, as a result no word can be (bit -1)
SIGFPE == {-1}

\* C's x / y and x % y on unsigned operands of n bits: a zero divisor raises
\* SIGFPE on the host
CDivU(x, y, n) == IF y = {} THEN SIGFPE ELSE UDiv(x, y, n)
CModU(x, y, n) == IF y = {} THEN SIGFPE ELSE UMod(x, y, n)

\* C's x / y and x % y on two's-complement operands of n bits: truncation
\* toward zero, the remainder takes the dividend's sign; a zero divisor and
\* most-negative / -1 raise SIGFPE on the host
Abs(x, n) == IF (n - 1) \in x THEN Neg(x, n) ELSE x
CDivS(x, y, n) ==
    IF y = {} \/ (x = {n - 1} /\ y = 0 .. (n - 1)) THEN SIGFPE
    ELSE LET q == UDiv(Abs(x, n), Abs(y, n), n)
         IN  IF ((n - 1) \in x) # ((n - 1) \in y) THEN Neg(q, n) ELSE q
CModS(x, y, n) ==
    IF y = {} \/ (x = {n - 1} /\ y = 0 .. (n - 1)) THEN SIGFPE
    ELSE LET r == UMod(Abs(x, n), Abs(y, n), n)
         IN  IF (n - 1) \in x THEN Neg(r, n) ELSE r

VL_EXTENDSIGN_I(lbits, lhs) == Neg(lhs \cap {lbits - 1}, VL_IDATASIZE)
VL_EXTENDSIGN_Q(lbits, lhs) == Neg(lhs \cap {lbits - 1}, VL_QUADSIZE)
VL_EXTENDS_II(obits, lbits, lhs) == VL_EXTENDSIGN_I(lbits, lhs) \cup lhs
VL_EXTENDS_QQ(obits, lbits, lhs) == VL_EXTENDSIGN_Q(lbits, lhs) \cup lhs

VL_DIV_III(lbits, lhs, rhs) == IF rhs = {} THEN {} ELSE CDivU(lhs, rhs, VL_IDATASIZE)
VL_DIV_QQQ(lbits, lhs, rhs) == IF rhs = {} THEN {} ELSE CDivU(lhs, rhs, VL_QUADSIZE)
VL_MODDIV_III(lbits, lhs, rhs) == IF rhs = {} THEN {} ELSE CModU(lhs, rhs, VL_IDATASIZE)
VL_MODDIV_QQQ(lbits, lhs, rhs) == IF rhs = {} THEN {} ELSE CModU(lhs, rhs, VL_QUADSIZE)

\* Seeded fault: the signed divide without its overflow test
VL_DIVS_III_unguarded(lbits, lhs, rhs) ==
    IF rhs = {} THEN {}
    ELSE CDivS(VL_EXTENDS_II(VL_IDATASIZE, lbits, lhs),
               VL_EXTENDS_II(VL_IDATASIZE, lbits, rhs), VL_IDATASIZE)
VL_DIVS_III(lbits, lhs, rhs) ==
    IF rhs = {} THEN {}
    ELSE IF lhs = {31} /\ rhs = IBits THEN {}
    ELSE CDivS(VL_EXTENDS_II(VL_IDATASIZE, lbits, lhs),
               VL_EXTENDS_II(VL_IDATASIZE, lbits, rhs), VL_IDATASIZE)
VL_DIVS_QQQ(lbits, lhs, rhs) ==
    IF rhs = {} THEN {}
    ELSE IF lhs = {63} /\ rhs = QBits THEN {}
    ELSE CDivS(VL_EXTENDS_QQ(VL_QUADSIZE, lbits, lhs),
               VL_EXTENDS_QQ(VL_QUADSIZE, lbits, rhs), VL_QUADSIZE)
VL_MODDIVS_III(lbits, lhs, rhs) ==
    IF rhs = {} THEN {}
    ELSE IF lhs = {31} /\ rhs = IBits THEN {}
    ELSE CModS(VL_EXTENDS_II(VL_IDATASIZE, lbits, lhs),
               VL_EXTENDS_II(VL_IDATASIZE, lbits, rhs), VL_IDATASIZE)
\* Seeded fault: the signed modulus without its zero-divisor test
VL_MODDIVS_QQQ_unguarded(lbits, lhs, rhs) ==
    IF lhs = {63} /\ rhs = QBits THEN {}
    ELSE CModS(VL_EXTENDS_QQ(VL_QUADSIZE, lbits, lhs),
               VL_EXTENDS_QQ(VL_QUADSIZE, lbits, rhs), VL_QUADSIZE)
VL_MODDIVS_QQQ(lbits, lhs, rhs) ==
    IF rhs = {} THEN {}
    ELSE IF lhs = {63} /\ rhs = QBits THEN {}
    ELSE CModS(VL_EXTENDS_QQ(VL_QUADSIZE, lbits, lhs),
               VL_EXTENDS_QQ(VL_QUADSIZE, lbits, rhs), VL_QUADSIZE)

\* ------------------------------------------------------------------------
\* Inputs

\* The largest number of 32-bit words of a wide value in the model
MaxWords == 4

\* Bit patterns of width W: zero, one, all ones, sign bit only, all but the
\* sign bit, alternating bits, the low and the high half
Patterns(W) ==
    { {}, {0}, 0 .. (W - 1), {W - 1}, 0 .. (W - 2),
      {i \in 0 .. (W - 1) : i % 2 = 0}, {i \in 0 .. (W - 1) : i % 2 = 1},
      0 .. ((W \div 2) - 1), (W \div 2) .. (W - 1) }

\* Prior contents of an output buffer of n words: every word all ones
Dirty(n) == [i \in 0 .. (n - 1) |-> IBits]

\* Widths of one word, of two words, and of 3 .. MaxWords words: at a word
\* boundary, one past it, inside a word and one short of the next boundary
NarrowWidths == {1, 5, 8, 31, 32}
QuadWidths == {33, 40, 63, 64}
WideWidths ==
    {VL_EDATASIZE * k + d : k \in 2 .. (MaxWords - 1), d \in {1, 4, 31, 32}}
AllWidths == NarrowWidths \cup QuadWidths \cup WideWidths

\* ------------------------------------------------------------------------
\* Two-operand arithmetic: the caller picks a width and two clean operands
\* and calls one operation

InitArith ==
    /\ pc = "start"
    /\ arg \in UNION {{[W |-> W, a |-> a, b |-> b] :
                          a \in Patterns(W), b \in Patterns(W)} : W \in AllWidths}
    /\ out = <<>>

\* One call: the operation's name and its result
Call(name, result) ==
    /\ pc = "start"
    /\ pc' = name
    /\ out' = result
    /\ UNCHANGED arg

Do_VL_ADD_W ==
    VL_WORDS_I(arg.W) >= 1 /\
    Call("VL_ADD_W",
         VL_ADD_W(VL_WORDS_I(arg.W), Dirty(VL_WORDS_I(arg.W)),
                  WordsOf(arg.a, VL_WORDS_I(arg.W)), WordsOf(arg.b, VL_WORDS_I(arg.W))))

Do_VL_DIV_III ==
    arg.W <= VL_IDATASIZE /\ Call("VL_DIV_III", VL_DIV_III(arg.W, arg.a, arg.b))
Do_VL_DIV_QQQ ==
    arg.W <= VL_QUADSIZE /\ Call("VL_DIV_QQQ", VL_DIV_QQQ(arg.W, arg.a, arg.b))
Do_VL_MODDIV_III ==
    arg.W <= VL_IDATASIZE /\ Call("VL_MODDIV_III", VL_MODDIV_III(arg.W, arg.a, arg.b))
Do_VL_MODDIV_QQQ ==
    arg.W <= VL_QUADSIZE /\ Call("VL_MODDIV_QQQ", VL_MODDIV_QQQ(arg.W, arg.a, arg.b))
Do_VL_DIVS_III ==
    arg.W <= VL_IDATASIZE /\ Call("VL_DIVS_III", VL_DIVS_III(arg.W, arg.a, arg.b))
Do_VL_DIVS_QQQ ==
    arg.W <= VL_QUADSIZE /\ Call("VL_DIVS_QQQ", VL_DIVS_QQQ(arg.W, arg.a, arg.b))
Do_VL_MODDIVS_III ==
    arg.W <= VL_IDATASIZE /\ Call("VL_MODDIVS_III", VL_MODDIVS_III(arg.W, arg.a, arg.b))
Do_VL_MODDIVS_QQQ ==
    arg.W <= VL_QUADSIZE /\ Call("VL_MODDIVS_QQQ", VL_MODDIVS_QQQ(arg.W, arg.a, arg.b))

NextArith ==
    \/ Do_VL_ADD_W
    \/ Do_VL_DIV_III
    \/ Do_VL_DIV_QQQ
    \/ Do_VL_MODDIV_III
    \/ Do_VL_MODDIV_QQQ
    \/ Do_VL_DIVS_III
    \/ Do_VL_DIVS_QQQ
    \/ Do_VL_MODDIVS_III
    \/ Do_VL_MODDIVS_QQQ

SpecArith == InitArith /\ [][NextArith]_vars

\* The result of a wide operation with its top word masked to W, as a numeral
Masked(W, owp) == BitsOf(_vl_clean_inplace_w(W, owp))

\* C1: for all a, b clean at width W, the words VL_ADD_W(words(W), ..) writes,
\* with the top word masked to W, are (a + b) mod 2^W: the sum computed over
\* the W bits as one numeral, and for W < 31 over the integers.
C1_AddIsSumModW ==
    pc = "VL_ADD_W" =>
        /\ DOMAIN out = 0 .. (VL_WORDS_I(arg.W) - 1)
        /\ Masked(arg.W, out) = Add(arg.a, arg.b, arg.W)
        /\ arg.W < 31 =>
             ToNat(Masked(arg.W, out)) = (ToNat(arg.a) + ToNat(arg.b)) % (2 ^ arg.W)

\* C1 witness: all ones plus one on a value of more than two words: the
\* carry crosses every word boundary and the masked sum wraps to zero.
C1_Witness ==
    /\ pc = "VL_ADD_W"
    /\ arg.W > VL_QUADSIZE
    /\ arg.W % VL_EDATASIZE # 0
    /\ arg.a = 0 .. (arg.W - 1)
    /\ arg.b = {0}
    /\ Masked(arg.W, out) = {}
    /\ out[VL_WORDS_I(arg.W) - 1] # {}

MostNegative(W) == {W - 1}
MinusOne(W) == 0 .. (W - 1)

DivOps ==
    {"VL_DIV_III", "VL_DIV_QQQ", "VL_MODDIV_III", "VL_MODDIV_QQQ",
     "VL_DIVS_III", "VL_DIVS_QQQ", "VL_MODDIVS_III", "VL_MODDIVS_QQQ"}

\* C9: each one- and two-word divide and modulus, signed and unsigned,
\* returns 0 for a zero divisor, whatever the dividend and the width, and
\* never reaches the host's division trap.
C9_DivByZeroIsZero ==
    /\ (pc \in DivOps /\ arg.b = {}) => out = {}
    /\ pc \in DivOps => out # SIGFPE

\* C9 witness: a signed two-word modulus of a negative dividend by zero.
C9_Witness ==
    /\ pc = "VL_MODDIVS_QQQ"
    /\ arg.b = {}
    /\ (arg.W - 1) \in arg.a
    /\ out = {}
\* ------------------------------------------------------------------------
\* Bit-range select out of a wide value

VL_BITRSHIFT_W(data, bit) == Shr(data[VL_BITWORD_E(bit)], VL_BITBIT_E(bit))

VL_SEL_IWII(lbits, lwp, lsb, width) ==
    LET msb == lsb + width - 1
        nbitsfromlow == VL_EDATASIZE - VL_BITBIT_E(lsb)
    IN  IF msb >= lbits THEN IBits
        ELSE IF VL_BITWORD_E(msb) = VL_BITWORD_E(lsb) THEN VL_BITRSHIFT_W(lwp, lsb)
        ELSE Shl(lwp[VL_BITWORD_E(msb)], nbitsfromlow, VL_IDATASIZE)
               \cup VL_BITRSHIFT_W(lwp, lsb)

VL_SEL_QWII(lbits, lwp, lsb, width) ==
    LET msb == lsb + width - 1
        nbitsfromlow == VL_EDATASIZE - VL_BITBIT_E(lsb)
        hi == lwp[VL_BITWORD_E(msb)]
        mid == lwp[VL_BITWORD_E(lsb) + 1]
        lo == VL_BITRSHIFT_W(lwp, lsb)
    IN  IF msb > lbits THEN QBits
        ELSE IF VL_BITWORD_E(msb) = VL_BITWORD_E(lsb) THEN lo
        ELSE IF VL_BITWORD_E(msb) = 1 + VL_BITWORD_E(lsb)
             THEN Shl(hi, nbitsfromlow, VL_QUADSIZE) \cup lo
        ELSE Shl(hi, nbitsfromlow + VL_EDATASIZE, VL_QUADSIZE)
               \cup Shl(mid, nbitsfromlow, VL_QUADSIZE) \cup lo

VL_SEL_WWII(obits, lbits, owp, lwp, lsb, width) ==
    LET msb == lsb + width - 1
        word_shift == VL_BITWORD_E(lsb)
        loffset == lsb % (VL_SIZEBITS_E + 1)
        nbitsfromlow == VL_EDATASIZE - loffset
        words == VL_WORDS_I(msb - lsb + 1)
    IN  IF msb > lbits
        THEN [i \in DOMAIN owp |->
                 IF i < VL_WORDS_I(obits) - 1 THEN IBits ELSE VL_MASK_E(obits)]
        ELSE IF VL_BITBIT_E(lsb) = 0
        THEN [i \in DOMAIN owp |-> lwp[i + word_shift]]
        ELSE [i \in DOMAIN owp |->
                 IF i >= words THEN {}
                 ELSE Shr(lwp[i + word_shift], loffset)
                        \cup (IF i + word_shift + 1 <= VL_BITWORD_E(msb)
                              THEN Shl(lwp[i + word_shift + 1], nbitsfromlow, VL_EDATASIZE)
                              ELSE {})]

\* One select of the range [lsb + width - 1 : lsb] of a value declared lbits
\* wide.  The source is the value's words followed by the word that lies
\* after them in memory, which a read past the array's end returns.
Memory(lbits, fill, beyond) ==
    [i \in 0 .. VL_WORDS_I(lbits) |->
        IF i = VL_WORDS_I(lbits) THEN beyond
        ELSE IF i = VL_WORDS_I(lbits) - 1 THEN fill \cap VL_MASK_E(lbits) ELSE fill]

SelLsbs == {0, 8, 32, 36, 64}
SelWidths(lbits, lsb) ==
    {w \in {1, 8, 32, 33, 64, 65} \cup ((lbits - lsb) .. (lbits - lsb + 2)) : w >= 1}
WordFills == {{}, IBits, {i \in IBits : i % 2 = 0}}

InitSel ==
    /\ pc = "start"
    /\ arg \in UNION {UNION {
           {[lbits |-> lbits, lsb |-> lsb, width |-> width,
             lwp |-> Memory(lbits, fill, beyond)] :
                width \in SelWidths(lbits, lsb), fill \in WordFills,
                beyond \in {{}, IBits}} :
           lsb \in SelLsbs} : lbits \in QuadWidths \cup WideWidths}
    /\ out = <<>>

Do_VL_SEL_IWII ==
    /\ arg.width <= VL_IDATASIZE
    /\ Call("VL_SEL_IWII", VL_SEL_IWII(arg.lbits, arg.lwp, arg.lsb, arg.width))
Do_VL_SEL_QWII ==
    /\ arg.width > VL_IDATASIZE
    /\ arg.width <= VL_QUADSIZE
    /\ Call("VL_SEL_QWII", VL_SEL_QWII(arg.lbits, arg.lwp, arg.lsb, arg.width))
Do_VL_SEL_WWII ==
    /\ arg.width > VL_QUADSIZE
    /\ Call("VL_SEL_WWII",
            VL_SEL_WWII(arg.width, arg.lbits, Dirty(VL_WORDS_I(arg.width)),
                        arg.lwp, arg.lsb, arg.width))

NextSel == Do_VL_SEL_IWII \/ Do_VL_SEL_QWII \/ Do_VL_SEL_WWII
SpecSel == InitSel /\ [][NextSel]_vars

\* C3 as stated: whenever msb = lsb + width - 1 >= lbits (msb = lbits
\* included) each of the three selects returns all ones (the wide one all
\* ones masked to obits), whatever the source words hold.
C3_Original ==
    arg.lsb + arg.width - 1 >= arg.lbits =>
        /\ pc = "VL_SEL_IWII" => out = IBits
        /\ pc = "VL_SEL_QWII" => out = QBits
        /\ pc = "VL_SEL_WWII" => BitsOf(out) = 0 .. (arg.width - 1)

\* C3, the failing case reached: a 33-bit select at [40:8] of a value 40 bits
\* wide (msb = lbits) has returned the source's bits, not all ones.
C3_Witness ==
    /\ pc = "VL_SEL_QWII"
    /\ arg.lbits = 40
    /\ arg.lsb = 8
    /\ arg.width = 33
    /\ out # QBits
\* ------------------------------------------------------------------------
\* Wide sign extension

\* memset / memcpy of `words` words starting at word `at` of owp
VL_MEMSET_ZERO_W(owp, at, words) ==
    [i \in DOMAIN owp |-> IF i >= at /\ i < at + words THEN {} ELSE owp[i]]
\* Seeded fault: the fill with ones leaves the words as they were
VL_MEMSET_ONES_W_skipped(owp, at, words) == owp
VL_MEMSET_ONES_W(owp, at, words) ==
    [i \in DOMAIN owp |-> IF i >= at /\ i < at + words THEN IBits ELSE owp[i]]
VL_MEMCPY_W(owp, iwp, words) ==
    [i \in DOMAIN owp |-> IF i < words THEN iwp[i] ELSE owp[i]]

\* Nonzero exactly when bit nbits - 1 (or a higher bit of its word) is set
VL_SIGN_E(nbits, lhs) == Shr(lhs, VL_BITBIT_E(nbits - 1))

\* if (VL_SIGN_E(..)) { top |= ~VL_MASK_E(lbits); ones above } else zeros above
VL_EXTENDS_fill(obits, lbits, owp, top) ==
    IF VL_SIGN_E(lbits, owp[top]) # {}
    THEN VL_MEMSET_ONES_W([owp EXCEPT ![top] = @ \cup Not(VL_MASK_E(lbits), VL_EDATASIZE)],
                          top + 1, VL_WORDS_I(obits) - (top + 1))
    ELSE VL_MEMSET_ZERO_W(owp, top + 1, VL_WORDS_I(obits) - (top + 1))

VL_EXTENDS_WI(obits, lbits, owp, ld) ==
    VL_EXTENDS_fill(obits, lbits, [owp EXCEPT ![0] = ld], 0)
VL_EXTENDS_WQ(obits, lbits, owp, ld) ==
    VL_EXTENDS_fill(obits, lbits,
                    [owp EXCEPT ![0] = VL_SET_WQ(ld)[0], ![1] = VL_SET_WQ(ld)[1]], 1)
VL_EXTENDS_WW(obits, lbits, owp, lwp) ==
    LET lwords == VL_WORDS_I(lbits)
    IN  VL_MEMCPY_W(VL_EXTENDS_fill(obits, lbits,
                                    [owp EXCEPT ![lwords - 1] = lwp[lwords - 1]],
                                    lwords - 1),
                    lwp, lwords - 1)

\* One extension of a clean source of lbits bits into a buffer of obits bits
\* whose prior content is all zeros or all ones
InitExt ==
    /\ pc = "start"
    /\ arg \in UNION {UNION {
           {[obits |-> obits, lbits |-> lbits, src |-> src,
             owp |-> [i \in 0 .. (VL_WORDS_I(obits) - 1) |-> prior]] :
                src \in Patterns(lbits), prior \in {{}, IBits}} :
           lbits \in {l \in AllWidths : l <= obits}} : obits \in WideWidths}
    /\ out = <<>>

Do_VL_EXTENDS_WI ==
    /\ arg.lbits <= VL_IDATASIZE
    /\ Call("VL_EXTENDS_WI", VL_EXTENDS_WI(arg.obits, arg.lbits, arg.owp, arg.src))
Do_VL_EXTENDS_WQ ==
    /\ arg.lbits > VL_IDATASIZE
    /\ arg.lbits <= VL_QUADSIZE
    /\ Call("VL_EXTENDS_WQ", VL_EXTENDS_WQ(arg.obits, arg.lbits, arg.owp, arg.src))
Do_VL_EXTENDS_WW ==
    /\ arg.lbits > VL_QUADSIZE
    /\ Call("VL_EXTENDS_WW",
            VL_EXTENDS_WW(arg.obits, arg.lbits, arg.owp,
                          WordsOf(arg.src, VL_WORDS_I(arg.lbits))))

NextExt == Do_VL_EXTENDS_WI \/ Do_VL_EXTENDS_WQ \/ Do_VL_EXTENDS_WW
SpecExt == InitExt /\ [][NextExt]_vars

ExtOps == {"VL_EXTENDS_WI", "VL_EXTENDS_WQ", "VL_EXTENDS_WW"}
\* The two's-complement extension of x from lbits to obits bits
SignExtension(x, lbits, obits) ==
    x \cup (IF (lbits - 1) \in x THEN lbits .. (obits - 1) ELSE {})
\* The bits of a buffer at positions obits and above
Above(obits, owp) == BitsOf(owp) \ (0 .. (obits - 1))

\* C4 as stated: after a wide sign extension no bit at a position >= obits
\* is set in the output, and the low obits bits are the sign extension.
C4_Original ==
    pc \in ExtOps =>
        /\ Above(arg.obits, out) = {}
        /\ BitsOf(out) \cap (0 .. (arg.obits - 1))
             = SignExtension(arg.src, arg.lbits, arg.obits)

\* C4 amended: the low obits bits are the sign extension of the source, and
\* the output is clean only for a non-negative source: every bit of the top
\* word at a position >= obits is a copy of the sign bit.
C4_SignFillsTopWord ==
    pc \in ExtOps =>
        /\ DOMAIN out = 0 .. (VL_WORDS_I(arg.obits) - 1)
        /\ BitsOf(out) \cap (0 .. (arg.obits - 1))
             = SignExtension(arg.src, arg.lbits, arg.obits)
        /\ Above(arg.obits, out)
             = IF (arg.lbits - 1) \in arg.src
               THEN arg.obits .. (VL_EDATASIZE * VL_WORDS_I(arg.obits) - 1) ELSE {}

\* C4 witness: a negative source of more than two words has been extended
\* into a wider buffer that ends inside a word, and that word is all ones.
C4_Witness ==
    /\ pc = "VL_EXTENDS_WW"
    /\ (arg.lbits - 1) \in arg.src
    /\ arg.obits > arg.lbits
    /\ arg.obits % VL_EDATASIZE # 0
    /\ out[VL_WORDS_I(arg.obits) - 1] = IBits
\* ------------------------------------------------------------------------
\* Unpacking a packed value into a queue or a fixed array of elements

\* A queue or array of `size` elements is a function on 0 .. size - 1; renew
\* replaces the queue, atWrite(i) names element i
UnpackSize(lbits, rbits) == (rbits + lbits - 1) \div lbits

\* q.atWrite(q.size() - 1 - i) = (from >> (i * lbits)) & mask
VL_UNPACK_RI_I(lbits, rbits, from) ==
    LET size == UnpackSize(lbits, rbits)
    IN  [e \in 0 .. (size - 1) |->
            Shr(from, ((size - 1) - e) * lbits) \cap VL_MASK_I(lbits)]

\* q.atWrite(i) = VL_SEL_IWII(rbits, rwp, i * lbits, lbits) & mask
VL_UNPACK_RI_W(lbits, rbits, rwp) ==
    [i \in 0 .. (UnpackSize(lbits, rbits) - 1) |->
        VL_SEL_IWII(rbits, rwp, i * lbits, lbits) \cap VL_MASK_I(lbits)]
VL_UNPACK_RQ_W(lbits, rbits, rwp) ==
    [i \in 0 .. (UnpackSize(lbits, rbits) - 1) |->
        VL_SEL_QWII(rbits, rwp, i * lbits, lbits) \cap VL_MASK_Q(lbits)]
VL_UNPACK_RW_W(lbits, rbits, rwp) ==
    [i \in 0 .. (UnpackSize(lbits, rbits) - 1) |->
        VL_SEL_WWII(lbits, rbits, [w \in 0 .. (VL_WORDS_I(lbits) - 1) |-> {}],
                    rwp, i * lbits, lbits)]

\* q[i] = VL_SEL_IWII(rbits, rwp, (N_Depth - 1 - i) * lbits, lbits) & mask
VL_UNPACK_UI_W(lbits, rbits, N_Depth, rwp) ==
    [i \in 0 .. (N_Depth - 1) |->
        VL_SEL_IWII(rbits, rwp, ((N_Depth - 1) - i) * lbits, lbits) \cap VL_MASK_I(lbits)]

\* The largest number of elements unpacked
MaxDepth == 4
ElemWidths == {4, 8, 24, 25, 32, 33, 40, 64, 65, 96}

\* One unpack of a clean value of depth * lbits bits into elements of lbits
InitUnpack ==
    /\ pc = "start"
    /\ arg \in UNION {UNION {
           {[lbits |-> lbits, depth |-> depth, rbits |-> depth * lbits, from |-> from] :
                from \in Patterns(depth * lbits)} :
           depth \in 2 .. MaxDepth} : lbits \in ElemWidths}
    /\ out = <<>>

Do_VL_UNPACK_RI_I ==
    /\ arg.rbits <= VL_IDATASIZE
    /\ Call("VL_UNPACK_RI_I", VL_UNPACK_RI_I(arg.lbits, arg.rbits, arg.from))
Do_VL_UNPACK_RI_W ==
    /\ arg.lbits <= VL_IDATASIZE
    /\ arg.rbits > VL_QUADSIZE
    /\ Call("VL_UNPACK_RI_W",
            VL_UNPACK_RI_W(arg.lbits, arg.rbits, WordsOf(arg.from, VL_WORDS_I(arg.rbits))))
Do_VL_UNPACK_RQ_W ==
    /\ arg.lbits > VL_IDATASIZE
    /\ arg.lbits <= VL_QUADSIZE
    /\ arg.rbits > VL_QUADSIZE
    /\ Call("VL_UNPACK_RQ_W",
            VL_UNPACK_RQ_W(arg.lbits, arg.rbits, WordsOf(arg.from, VL_WORDS_I(arg.rbits))))
Do_VL_UNPACK_RW_W ==
    /\ arg.lbits > VL_QUADSIZE
    /\ Call("VL_UNPACK_RW_W",
            [i \in 0 .. (arg.depth - 1) |->
                BitsOf(VL_UNPACK_RW_W(arg.lbits, arg.rbits,
                                      WordsOf(arg.from, VL_WORDS_I(arg.rbits)))[i])])
Do_VL_UNPACK_UI_W ==
    /\ arg.lbits <= VL_IDATASIZE
    /\ arg.rbits > VL_QUADSIZE
    /\ Call("VL_UNPACK_UI_W",
            VL_UNPACK_UI_W(arg.lbits, arg.rbits, arg.depth,
                           WordsOf(arg.from, VL_WORDS_I(arg.rbits))))

NextUnpack ==
    \/ Do_VL_UNPACK_RI_I
    \/ Do_VL_UNPACK_RI_W
    \/ Do_VL_UNPACK_RQ_W
    \/ Do_VL_UNPACK_RW_W
    \/ Do_VL_UNPACK_UI_W
SpecUnpack == InitUnpack /\ [][NextUnpack]_vars

UnpackOps ==
    {"VL_UNPACK_RI_I", "VL_UNPACK_RI_W", "VL_UNPACK_RQ_W", "VL_UNPACK_RW_W",
     "VL_UNPACK_UI_W"}
\* The n bits of x from bit lo up, as a value
Slice(x, lo, n) == {b - lo : b \in {c \in x : c >= lo /\ c < lo + n}}

\* C5 as stated: every unpack form puts the most significant slice of the
\* packed value into element 0 and the least significant into the last
\* (each element read in its low lbits bits).
C5_Original ==
    pc \in UnpackOps =>
        /\ out[0] \cap (0 .. (arg.lbits - 1))
             = Slice(arg.from, (arg.depth - 1) * arg.lbits, arg.lbits)
        /\ out[arg.depth - 1] \cap (0 .. (arg.lbits - 1))
             = Slice(arg.from, 0, arg.lbits)

\* C5, the failing case reached: a wide source whose only set bit is bit 0
\* has been unpacked into a queue and the bit is in element 0, not the last.
C5_Witness ==
    /\ pc = "VL_UNPACK_RI_W"
    /\ arg.from = {0}
    /\ out[0] = {0}
    /\ out[arg.depth - 1] = {}
\* ------------------------------------------------------------------------
\* Bit-range insert into a wide value

\* Seeded fault: the insert writes the low destination word only
_vl_insert_WI_lowword(iowp, ld, hbit, lbit, rbits) ==
    [iowp EXCEPT ![VL_BITWORD_E(lbit)] =
        {b \in @ : b < VL_BITBIT_E(lbit)} \cup Shl(ld, VL_BITBIT_E(lbit), VL_EDATASIZE)]

\* Seeded fault: an insert within one word drops the rest of that word
_vl_insert_WI_clobbers(iowp, ld, hbit, lbit, rbits) ==
    LET hoffset == VL_BITBIT_E(hbit)
        loffset == VL_BITBIT_E(lbit)
        roffset == VL_BITBIT_E(rbits)
        hword == VL_BITWORD_E(hbit)
        lword == VL_BITWORD_E(lbit)
        rword == VL_BITWORD_E(rbits)
        cleanmask == IF hword = rword THEN VL_MASK_E(roffset) ELSE VL_MASK_E(0)
        insmask == Shl(VL_MASK_E(hoffset - loffset + 1), loffset, VL_EDATASIZE)
        hinsmask == VL_MASK_E(hoffset - 0 + 1)
        linsmask == Shl(VL_MASK_E((VL_EDATASIZE - 1) - loffset + 1), loffset, VL_EDATASIZE)
        nbitsonright == VL_EDATASIZE - loffset
        low == [iowp EXCEPT ![lword] =
                   (@ \ linsmask) \cup (Shl(ld, loffset, VL_EDATASIZE) \cap linsmask)]
    IN  IF hoffset = VL_SIZEBITS_E /\ loffset = 0
        THEN [iowp EXCEPT ![lword] = ld \cap cleanmask]
        ELSE IF hword = lword
        THEN [iowp EXCEPT ![lword] =
                 Shl(ld, loffset, VL_EDATASIZE) \cap (insmask \cap cleanmask)]
        ELSE IF ~(hword = rword /\ roffset = 0)
        THEN [low EXCEPT ![hword] =
                 (@ \ hinsmask) \cup (Shr(ld, nbitsonright) \cap (hinsmask \cap cleanmask))]
        ELSE low

_vl_insert_WI(iowp, ld, hbit, lbit, rbits) ==
    LET hoffset == VL_BITBIT_E(hbit)
        loffset == VL_BITBIT_E(lbit)
        roffset == VL_BITBIT_E(rbits)
        hword == VL_BITWORD_E(hbit)
        lword == VL_BITWORD_E(lbit)
        rword == VL_BITWORD_E(rbits)
        cleanmask == IF hword = rword THEN VL_MASK_E(roffset) ELSE VL_MASK_E(0)
        insmask == Shl(VL_MASK_E(hoffset - loffset + 1), loffset, VL_EDATASIZE)
        hinsmask == VL_MASK_E(hoffset - 0 + 1)
        linsmask == Shl(VL_MASK_E((VL_EDATASIZE - 1) - loffset + 1), loffset, VL_EDATASIZE)
        nbitsonright == VL_EDATASIZE - loffset
        low == [iowp EXCEPT ![lword] =
                   (@ \ linsmask) \cup (Shl(ld, loffset, VL_EDATASIZE) \cap linsmask)]
    IN  IF hoffset = VL_SIZEBITS_E /\ loffset = 0
        THEN [iowp EXCEPT ![lword] = ld \cap cleanmask]
        ELSE IF hword = lword
        THEN [iowp EXCEPT ![lword] =
                 (@ \ insmask)
                   \cup (Shl(ld, loffset, VL_EDATASIZE) \cap (insmask \cap cleanmask))]
        ELSE IF ~(hword = rword /\ roffset = 0)
        THEN [low EXCEPT ![hword] =
                 (@ \ hinsmask) \cup (Shr(ld, nbitsonright) \cap (hinsmask \cap cleanmask))]
        ELSE low

_vl_insert_WW(iowp, lwp, hbit, lbit, rbits) ==
    LET hoffset == VL_BITBIT_E(hbit)
        loffset == VL_BITBIT_E(lbit)
        roffset == VL_BITBIT_E(rbits)
        lword == VL_BITWORD_E(lbit)
        hword == VL_BITWORD_E(hbit)
        rword == VL_BITWORD_E(rbits)
        words == VL_WORDS_I(hbit - lbit + 1)
        cleanmask == IF hword = rword THEN VL_MASK_E(roffset) ELSE VL_MASK_E(0)
        hinsmask == VL_MASK_E(hoffset - 0 + 1)
        linsmask == Shl(VL_MASK_E((VL_EDATASIZE - 1) - loffset + 1), loffset, VL_EDATASIZE)
        nbitsonright == VL_EDATASIZE - loffset
        \* iowp[oword] = od, cleaned and merged when oword is the high word
        Store(io, oword, od) ==
            [io EXCEPT ![oword] =
                IF oword = hword
                THEN (@ \ hinsmask) \cup (od \cap (hinsmask \cap cleanmask))
                ELSE od]
        Lower(io, i) ==
            Store(io, lword + i,
                  (io[lword + i] \ linsmask)
                    \cup (Shl(lwp[i], loffset, VL_EDATASIZE) \cap linsmask))
        Upper(io, i) ==
            IF lword + i + 1 <= hword
            THEN Store(io, lword + i + 1,
                       (Shr(lwp[i], nbitsonright) \ linsmask)
                         \cup (io[lword + i + 1] \cap linsmask))
            ELSE io
        RECURSIVE Loop(_, _)
        Loop(io, i) ==
            IF i >= words THEN io
            ELSE The({Loop(u, i + 1) : u \in {Upper(l, i) : l \in {Lower(io, i)}}})
        copied == [i \in DOMAIN iowp |->
                      IF i >= lword /\ i < lword + (words - 1) THEN lwp[i - lword]
                      ELSE iowp[i]]
    IN  IF hoffset = VL_SIZEBITS_E /\ loffset = 0
        THEN [copied EXCEPT ![hword] = lwp[words - 1] \cap cleanmask]
        ELSE IF loffset = 0
        THEN [copied EXCEPT ![hword] =
                 (@ \ hinsmask) \cup (lwp[words - 1] \cap (hinsmask \cap cleanmask))]
        ELSE Loop(iowp, 0)

VL_ASSIGNSEL_WI(rbits, obits, lsb, iowp, rhs) ==
    _vl_insert_WI(iowp, rhs, lsb + obits - 1, lsb, rbits)
VL_ASSIGNSEL_WW(rbits, obits, lsb, iowp, rwp) ==
    _vl_insert_WW(iowp, rwp, lsb + obits - 1, lsb, rbits)
\* A destination of rbits bits with prior content x receives v at
\* [lo + width - 1 : lo]; then the same range is read back
InsLsbs == {0, 4, 31, 32, 36, 64, 96}
InsWidths == {1, 4, 8, 32, 33, 40, 64, 65}

InitInsSel ==
    /\ pc = "start"
    /\ arg \in UNION {UNION {UNION {
           {[rbits |-> rbits, lo |-> lo, width |-> width, x |-> x, v |-> v] :
                x \in {{}, 0 .. (rbits - 1), {i \in 0 .. (rbits - 1) : i % 2 = 0}},
                v \in Patterns(VL_EDATASIZE * VL_WORDS_I(width))} :
           width \in {w \in InsWidths : lo + w - 1 < rbits}} :
           lo \in InsLsbs} : rbits \in WideWidths}
    /\ out = <<>>

Do_VL_ASSIGNSEL_WI ==
    /\ arg.width <= VL_IDATASIZE
    /\ Call("VL_ASSIGNSEL_WI",
            VL_ASSIGNSEL_WI(arg.rbits, arg.width, arg.lo,
                            WordsOf(arg.x, VL_WORDS_I(arg.rbits)), arg.v))
Do_VL_ASSIGNSEL_WW ==
    /\ arg.width > VL_IDATASIZE
    /\ Call("VL_ASSIGNSEL_WW",
            VL_ASSIGNSEL_WW(arg.rbits, arg.width, arg.lo,
                            WordsOf(arg.x, VL_WORDS_I(arg.rbits)),
                            WordsOf(arg.v, VL_WORDS_I(arg.width))))
Do_ReadBack_IWII ==
    /\ pc = "VL_ASSIGNSEL_WI"
    /\ pc' = "VL_SEL_IWII"
    /\ out' = [iowp |-> out, sel |-> VL_SEL_IWII(arg.rbits, out, arg.lo, arg.width)]
    /\ UNCHANGED arg
Do_ReadBack_WWII ==
    /\ pc = "VL_ASSIGNSEL_WW"
    /\ pc' = "VL_SEL_WWII"
    /\ out' = [iowp |-> out,
               sel |-> BitsOf(VL_SEL_WWII(arg.width, arg.rbits,
                                          Dirty(VL_WORDS_I(arg.width)),
                                          out, arg.lo, arg.width))]
    /\ UNCHANGED arg

NextInsSel ==
    \/ Do_VL_ASSIGNSEL_WI
    \/ Do_VL_ASSIGNSEL_WW
    \/ Do_ReadBack_IWII
    \/ Do_ReadBack_WWII
SpecInsSel == InitInsSel /\ [][NextInsSel]_vars

\* C6: after v is inserted at [hi:lo] of a destination (hi < rbits), whatever
\* the destination held, selecting [hi:lo] and masking to hi - lo + 1 bits
\* gives v masked to hi - lo + 1 bits: through _vl_insert_WI and VL_SEL_IWII
\* for up to 32 bits, through _vl_insert_WW and VL_SEL_WWII above.
C6_InsertSelectRoundTrip ==
    pc \in {"VL_SEL_IWII", "VL_SEL_WWII"} =>
        out.sel \cap (0 .. (arg.width - 1)) = arg.v \cap (0 .. (arg.width - 1))

\* C6 witness: bits [99:96] of a 100-bit destination that held all ones
\* have been written with 0101 and read back as 0101.
C6_Witness ==
    /\ pc = "VL_SEL_IWII"
    /\ arg.rbits = 100
    /\ arg.lo = 96
    /\ arg.width = 4
    /\ arg.x = 0 .. 99
    /\ out.sel \cap (0 .. 3) = {0, 2}
    /\ out.iowp[3] = {0, 2}
\* ------------------------------------------------------------------------
\* Left streaming: slice reversal, the power-of-two fast path and the loop

\* x << c in C on a type of n bits.  For c >= n the behaviour is undefined:
\* hosts either take the count modulo n or shift everything out
Hosts == {"count modulo width", "shifted out"}
CShl(x, c, n, host) ==
    IF c < n THEN Shl(x, c, n)
    ELSE IF host = "count modulo width" THEN Shl(x, c % n, n)
    ELSE {}

\* 0x5555.., 0x3333.., 0x0f0f.., ..: the low 2^s bits of every 2^(s+1)
SwapMask(s, n) == {b \in 0 .. (n - 1) : (b \div (2 ^ s)) % 2 = 0}
\* case s: ret = ((ret >> 2^s) & mask) | ((ret & mask) << 2^s); FALLTHRU
RECURSIVE StreamlCases(_, _, _)
StreamlCases(ret, s, n) ==
    IF 2 ^ (s + 1) > n THEN ret
    ELSE StreamlCases((Shr(ret, 2 ^ s) \cap SwapMask(s, n))
                        \cup Shl(ret \cap SwapMask(s, n), 2 ^ s, n), s + 1, n)

\* Seeded fault: the fast path without the pre-shift of the top slice
StreamlPreShift_none(ret, lbits, rd_log2, n, host) == ret
\* if (rd_log2) { lbitsFloor, lbitsRem, msbMask; ret = ... }
StreamlPreShift(ret, lbits, rd_log2, n, host) ==
    LET lbitsFloor == ToNat(FromNat(lbits) \ VL_MASK_I(rd_log2))
        lbitsRem == lbits - lbitsFloor
        msbMask == IF lbitsFloor = n THEN {}
                   ELSE Shl(IF n = VL_IDATASIZE THEN VL_MASK_I(lbitsRem)
                            ELSE VL_MASK_Q(lbitsRem), lbitsFloor, n)
    IN  IF rd_log2 = 0 THEN ret
        ELSE (ret \ msbMask) \cup CShl(ret \cap msbMask, (2 ^ rd_log2) - lbitsRem, n, host)

VL_STREAML_FAST_III(lbits, ld, rd_log2, host) ==
    Shr(StreamlCases(StreamlPreShift(ld, lbits, rd_log2, VL_IDATASIZE, host),
                     rd_log2, VL_IDATASIZE),
        VL_IDATASIZE - lbits)
VL_STREAML_FAST_QQI(lbits, ld, rd_log2, host) ==
    Shr(StreamlCases(StreamlPreShift(ld, lbits, rd_log2, VL_QUADSIZE, host),
                     rd_log2, VL_QUADSIZE),
        VL_QUADSIZE - lbits)

\* for (istart = 0; istart < lbits; istart += rd) ret |= slice << ostart
VL_STREAML_III(lbits, ld, rd) ==
    UNION {Shl(Shr(ld, istart) \cap VL_MASK_I(rd),
               IF lbits - rd - istart > 0 THEN lbits - rd - istart ELSE 0,
               VL_IDATASIZE)
           : istart \in {i \in 0 .. (lbits - 1) : i % rd = 0}}
VL_STREAML_QQI(lbits, ld, rd) ==
    UNION {Shl(Shr(ld, istart) \cap VL_MASK_Q(rd),
               IF lbits - rd - istart > 0 THEN lbits - rd - istart ELSE 0,
               VL_QUADSIZE)
           : istart \in {i \in 0 .. (lbits - 1) : i % rd = 0}}

\* The largest log2 of a slice size
MaxLog2 == 6

\* One value of lbits bits is streamed with slice size 2^k down both paths;
\* every value of up to 8 bits is tried
InitStream ==
    /\ pc = "start"
    /\ arg \in UNION {
           {[lbits |-> lbits, ld |-> ld, k |-> k, host |-> host] :
                ld \in IF lbits <= 8 THEN SUBSET (0 .. (lbits - 1)) ELSE Patterns(lbits),
                k \in 0 .. MaxLog2, host \in Hosts} :
           lbits \in 1 .. VL_QUADSIZE}
    /\ out = <<>>

Do_VL_STREAML_III ==
    /\ arg.lbits <= VL_IDATASIZE
    /\ Call("VL_STREAML_III",
            [fast |-> VL_STREAML_FAST_III(arg.lbits, arg.ld, arg.k, arg.host),
             slow |-> VL_STREAML_III(arg.lbits, arg.ld, 2 ^ arg.k)])
Do_VL_STREAML_QQI ==
    /\ arg.lbits > VL_IDATASIZE
    /\ Call("VL_STREAML_QQI",
            [fast |-> VL_STREAML_FAST_QQI(arg.lbits, arg.ld, arg.k, arg.host),
             slow |-> VL_STREAML_QQI(arg.lbits, arg.ld, 2 ^ arg.k)])

NextStream == Do_VL_STREAML_III \/ Do_VL_STREAML_QQI
SpecStream == InitStream /\ [][NextStream]_vars

\* C7 as stated: for every width, clean input and slice size 2^k the fast
\* path returns what the loop returns.
C7_Original ==
    pc \in {"VL_STREAML_III", "VL_STREAML_QQI"} => out.fast = out.slow

\* C7 amended: the two paths agree for every slice size 2^k up to the width
\* of the C type (32 for the III forms, 64 for the QQI forms), slices wider
\* than lbits and widths that are no multiple of the slice included, on
\* every host.
C7_FastEqualsSlowUpToTypeWidth ==
    /\ (pc = "VL_STREAML_III" /\ 2 ^ arg.k <= VL_IDATASIZE) => out.fast = out.slow
    /\ (pc = "VL_STREAML_QQI" /\ 2 ^ arg.k <= VL_QUADSIZE) => out.fast = out.slow

\* C7 witness: 5 bits streamed in slices of 2 (the top slice is one bit
\* wide): 10110 has become 10 01 1 = 10011 on both paths.
C7_Witness ==
    /\ pc = "VL_STREAML_III"
    /\ arg.lbits = 5
    /\ arg.k = 1
    /\ arg.ld = {1, 2, 4}
    /\ out.fast = {0, 1, 4}
    /\ out.slow = {0, 1, 4}
\* ------------------------------------------------------------------------
\* Logical shifts

VL_SHIFTL_III(obits, lhs, rhs) ==
    IF rhs >= VL_IDATASIZE THEN {} ELSE Shl(lhs, rhs, VL_IDATASIZE)
VL_SHIFTL_QQI(obits, lhs, rhs) ==
    IF rhs >= VL_QUADSIZE THEN {} ELSE Shl(lhs, rhs, VL_QUADSIZE)
\* Seeded fault: the right shift without its test of the shift amount
VL_SHIFTR_III_untested(obits, lhs, rhs) == Shr(lhs, rhs % VL_IDATASIZE)
VL_SHIFTR_III(obits, lhs, rhs) ==
    IF rhs >= VL_IDATASIZE THEN {} ELSE Shr(lhs, rhs)
VL_SHIFTR_QQI(obits, lhs, rhs) ==
    IF rhs >= VL_QUADSIZE THEN {} ELSE Shr(lhs, rhs)

VL_SHIFTL_WWI(obits, owp, lwp, rd) ==
    LET word_shift == VL_BITWORD_E(rd)
        bit_shift == VL_BITBIT_E(rd)
        zeroed == [i \in DOMAIN owp |-> {}]
    IN  IF rd >= obits THEN zeroed
        ELSE IF bit_shift = 0
        THEN [i \in DOMAIN owp |-> IF i < word_shift THEN {} ELSE lwp[i - word_shift]]
        ELSE _vl_insert_WW(zeroed, lwp, obits - 1, rd, 0)

VL_SHIFTR_WWI(obits, owp, lwp, rd) ==
    LET word_shift == VL_BITWORD_E(rd)
        bit_shift == VL_BITBIT_E(rd)
        copy_words == VL_WORDS_I(obits) - word_shift
        loffset == rd % (VL_SIZEBITS_E + 1)
        nbitsonright == VL_EDATASIZE - loffset
        words == VL_WORDS_I(obits - rd)
    IN  IF rd >= obits THEN [i \in DOMAIN owp |-> {}]
        ELSE IF bit_shift = 0
        THEN [i \in DOMAIN owp |-> IF i < copy_words THEN lwp[i + word_shift] ELSE {}]
        ELSE [i \in DOMAIN owp |->
                 IF i >= words THEN {}
                 ELSE Shr(lwp[i + word_shift], loffset)
                        \cup (IF i + word_shift + 1 < VL_WORDS_I(obits)
                              THEN Shl(lwp[i + word_shift + 1], nbitsonright, VL_EDATASIZE)
                              ELSE {})]

\* One shift of a clean x of W bits by rd: amounts around the word and type
\* sizes, around W, and far beyond
ShiftAmounts(W) ==
    {0, 1, 4, 31, 32, 33, 63, 64, 65, W - 1, W, W + 1, 2 ^ 20}

InitShift ==
    /\ pc = "start"
    /\ arg \in UNION {
           {[W |-> W, x |-> x, rd |-> rd] : x \in Patterns(W), rd \in ShiftAmounts(W)} :
           W \in AllWidths}
    /\ out = <<>>

Do_VL_SHIFTL_III ==
    arg.W <= VL_IDATASIZE /\ Call("VL_SHIFTL_III", VL_SHIFTL_III(arg.W, arg.x, arg.rd))
Do_VL_SHIFTR_III ==
    arg.W <= VL_IDATASIZE /\ Call("VL_SHIFTR_III", VL_SHIFTR_III(arg.W, arg.x, arg.rd))
Do_VL_SHIFTL_QQI ==
    /\ arg.W > VL_IDATASIZE
    /\ arg.W <= VL_QUADSIZE
    /\ Call("VL_SHIFTL_QQI", VL_SHIFTL_QQI(arg.W, arg.x, arg.rd))
Do_VL_SHIFTR_QQI ==
    /\ arg.W > VL_IDATASIZE
    /\ arg.W <= VL_QUADSIZE
    /\ Call("VL_SHIFTR_QQI", VL_SHIFTR_QQI(arg.W, arg.x, arg.rd))
Do_VL_SHIFTL_WWI ==
    /\ arg.W > VL_QUADSIZE
    /\ Call("VL_SHIFTL_WWI",
            BitsOf(VL_SHIFTL_WWI(arg.W, Dirty(VL_WORDS_I(arg.W)),
                                 WordsOf(arg.x, VL_WORDS_I(arg.W)), arg.rd)))
Do_VL_SHIFTR_WWI ==
    /\ arg.W > VL_QUADSIZE
    /\ Call("VL_SHIFTR_WWI",
            BitsOf(VL_SHIFTR_WWI(arg.W, Dirty(VL_WORDS_I(arg.W)),
                                 WordsOf(arg.x, VL_WORDS_I(arg.W)), arg.rd)))

NextShift ==
    \/ Do_VL_SHIFTL_III
    \/ Do_VL_SHIFTR_III
    \/ Do_VL_SHIFTL_QQI
    \/ Do_VL_SHIFTR_QQI
    \/ Do_VL_SHIFTL_WWI
    \/ Do_VL_SHIFTR_WWI
SpecShift == InitShift /\ [][NextShift]_vars

ShiftLOps == {"VL_SHIFTL_III", "VL_SHIFTL_QQI", "VL_SHIFTL_WWI"}
ShiftROps == {"VL_SHIFTR_III", "VL_SHIFTR_QQI", "VL_SHIFTR_WWI"}

\* C10: a logical shift of a clean x of W bits by rd, masked to W, is 0 when
\* rd >= W (rd = W and rd beyond the C type's width included); for rd < W
\* it is (x * 2^rd) mod 2^W for a left shift and floor(x / 2^rd) for a right
\* shift, the product and the quotient computed by the multiplier and the
\* long division.
C10_LogicalShift ==
    pc \in ShiftLOps \cup ShiftROps =>
        out \cap (0 .. (arg.W - 1)) =
            IF arg.rd >= arg.W THEN {}
            ELSE IF pc \in ShiftLOps THEN Mul({arg.rd}, arg.x, arg.W)
            ELSE UDiv(arg.x, {arg.rd}, arg.W)

\* C10 witness: a 5-bit value of all ones has been shifted left by exactly
\* its width inside one word: every bit has left the low 5 bits.
C10_Witness ==
    /\ pc = "VL_SHIFTL_III"
    /\ arg.W = 5
    /\ arg.rd = 5
    /\ arg.x = 0 .. 4
    /\ out = 5 .. 9
\* ------------------------------------------------------------------------
\* Wide signed multiply, divide and modulus

\* Seeded fault: the carry out of a word is never taken into the next
VL_NEGATE_W_nocarry(words, owp, lwp) ==
    [i \in DOMAIN owp |->
        IF i >= words THEN owp[i]
        ELSE Add(Not(lwp[i], VL_EDATASIZE), IF i = 0 THEN {0} ELSE {}, VL_EDATASIZE)]
VL_NEGATE_W(words, owp, lwp) ==
    LET RECURSIVE Loop(_, _, _)
        Loop(o, carry, i) ==
            IF i >= words THEN o
            ELSE The({Loop([o EXCEPT ![i] = w],
                           IF Lt(w, Not(lwp[i], VL_EDATASIZE)) THEN {0} ELSE {}, i + 1)
                      : w \in {Add(Not(lwp[i], VL_EDATASIZE), carry, VL_EDATASIZE)}})
    IN  Loop(owp, {0}, 0)

\* Seeded fault: the output words are not zeroed before the products are
\* accumulated into them
VL_MUL_W_unzeroed(words, owp, lwp, rwp) ==
    WordsOf(Add(BitsOf(owp),
                Mul(BitsOf(lwp), BitsOf(rwp), VL_EDATASIZE * words),
                VL_EDATASIZE * words),
            words)

VL_MUL_W(words, owp, lwp, rwp) ==
    LET \* for (qword = lword + rword; qword < words; ++qword) mul += owp[qword]; ..
        RECURSIVE Carry(_, _, _)
        Carry(o, mul, qword) ==
            IF qword >= words THEN o
            ELSE The({Carry([o EXCEPT ![qword] = LoWord(m)], HiWord(m), qword + 1)
                      : m \in {Add(mul, o[qword], VL_QUADSIZE)}})
        RECURSIVE Cols(_, _, _)
        Cols(o, lword, rword) ==
            IF rword >= words THEN o
            ELSE The({Cols(n, lword, rword + 1)
                      : n \in {Carry(o, Mul(lwp[lword], rwp[rword], VL_QUADSIZE),
                                     lword + rword)}})
        RECURSIVE Rows(_, _)
        Rows(o, lword) ==
            IF lword >= words THEN o
            ELSE The({Rows(n, lword + 1) : n \in {Cols(o, lword, 0)}})
    IN  Rows([i \in DOMAIN owp |-> {}], 0)

\* The unsigned wide long division: the quotient, or with is_modulus the
\* remainder, of two values of lbits bits; all zeros for a zero divisor
_vl_moddiv_w(lbits, owp, lwp, rwp, is_modulus) ==
    LET n == VL_EDATASIZE * VL_WORDS_I(lbits)
    IN  WordsOf(IF BitsOf(rwp) = {} THEN {}
                ELSE IF is_modulus THEN UMod(BitsOf(lwp), BitsOf(rwp), n)
                ELSE UDiv(BitsOf(lwp), BitsOf(rwp), n),
                VL_WORDS_I(lbits))
VL_DIV_WWW(lbits, owp, lwp, rwp) == _vl_moddiv_w(lbits, owp, lwp, rwp, FALSE)
VL_MODDIV_WWW(lbits, owp, lwp, rwp) == _vl_moddiv_w(lbits, owp, lwp, rwp, TRUE)

\* if (sign) tup = _vl_clean_inplace_w(lbits, VL_NEGATE_W(words, store, wp))
Unsigned(lbits, sign, wp) ==
    IF sign # {}
    THEN _vl_clean_inplace_w(lbits,
             VL_NEGATE_W(VL_WORDS_I(lbits), Dirty(VL_WORDS_I(lbits)), wp))
    ELSE wp

\* if ((lneg ^ rneg) & 1)
VL_MULS_WWW_negates(lneg, rneg) == ((lneg \ rneg) \cup (rneg \ lneg)) \cap {0} # {}
\* Seeded fault: the quotient takes the dividend's sign
VL_DIVS_WWW_negates_dividend(lsign, rsign) == lsign # {}
\* if ((lsign && !rsign) || (!lsign && rsign))
VL_DIVS_WWW_negates(lsign, rsign) ==
    (lsign # {} /\ rsign = {}) \/ (lsign = {} /\ rsign # {})
\* if (lsign)  -- only dividend sign matters for modulus
VL_MODDIVS_WWW_negates(lsign, rsign) == lsign # {}

VL_MULS_WWW(lbits, owp, lwp, rwp) ==
    LET words == VL_WORDS_I(lbits)
        lneg == VL_SIGN_E(lbits, lwp[words - 1])
        rneg == VL_SIGN_E(lbits, rwp[words - 1])
        product == _vl_clean_inplace_w(lbits,
                       VL_MUL_W(words, owp, Unsigned(lbits, lneg, lwp),
                                Unsigned(lbits, rneg, rwp)))
        \* carry += ~owp[i]; if (i == 0) ++carry; owp[i] = low; carry = high
        RECURSIVE Negate(_, _, _)
        Negate(o, carry, i) ==
            IF i >= words THEN o
            ELSE The({Negate([o EXCEPT ![i] = LoWord(c)], HiWord(c), i + 1)
                      : c \in {AddC(carry, Not(o[i], VL_EDATASIZE),
                                    IF i = 0 THEN 1 ELSE 0, VL_QUADSIZE)}})
    IN  IF VL_MULS_WWW_negates(lneg, rneg) THEN Negate(product, {}, 0) ELSE product

VL_DIVS_WWW(lbits, owp, lwp, rwp) ==
    LET lwords == VL_WORDS_I(lbits)
        lsign == VL_SIGN_E(lbits, lwp[lwords - 1])
        rsign == VL_SIGN_E(lbits, rwp[lwords - 1])
        ltup == Unsigned(lbits, lsign, lwp)
        rtup == Unsigned(lbits, rsign, rwp)
    IN  IF VL_DIVS_WWW_negates(lsign, rsign)
        THEN _vl_clean_inplace_w(lbits,
                 VL_NEGATE_W(lwords, owp, VL_DIV_WWW(lbits, Dirty(lwords), ltup, rtup)))
        ELSE VL_DIV_WWW(lbits, owp, ltup, rtup)

VL_MODDIVS_WWW(lbits, owp, lwp, rwp) ==
    LET lwords == VL_WORDS_I(lbits)
        lsign == VL_SIGN_E(lbits, lwp[lwords - 1])
        rsign == VL_SIGN_E(lbits, rwp[lwords - 1])
        ltup == Unsigned(lbits, lsign, lwp)
        rtup == Unsigned(lbits, rsign, rwp)
    IN  IF VL_MODDIVS_WWW_negates(lsign, rsign)
        THEN _vl_clean_inplace_w(lbits,
                 VL_NEGATE_W(lwords, owp, VL_MODDIV_WWW(lbits, Dirty(lwords), ltup, rtup)))
        ELSE VL_MODDIV_WWW(lbits, owp, ltup, rtup)
\* Signed operands of W bits: 0, 1, -1, the most negative and the most
\* positive value, and the two alternating patterns (one of them negative)
SignedOperands(W) ==
    { {}, {0}, 0 .. (W - 1), {W - 1}, 0 .. (W - 2),
      {i \in 0 .. (W - 1) : i % 2 = 0}, {i \in 0 .. (W - 1) : i % 2 = 1} }

InitSigned ==
    /\ pc = "start"
    /\ arg \in UNION {{[W |-> W, a |-> a, b |-> b] :
                          a \in SignedOperands(W), b \in SignedOperands(W)} :
                      W \in WideWidths}
    /\ out = <<>>

Do_VL_MULS_WWW ==
    arg.W > VL_QUADSIZE /\
    Call("VL_MULS_WWW",
         VL_MULS_WWW(arg.W, Dirty(VL_WORDS_I(arg.W)), WordsOf(arg.a, VL_WORDS_I(arg.W)),
              WordsOf(arg.b, VL_WORDS_I(arg.W))))
Do_VL_DIVS_WWW ==
    arg.W > VL_QUADSIZE /\
    Call("VL_DIVS_WWW",
         VL_DIVS_WWW(arg.W, Dirty(VL_WORDS_I(arg.W)), WordsOf(arg.a, VL_WORDS_I(arg.W)),
              WordsOf(arg.b, VL_WORDS_I(arg.W))))
Do_VL_MODDIVS_WWW ==
    arg.W > VL_QUADSIZE /\
    Call("VL_MODDIVS_WWW",
         VL_MODDIVS_WWW(arg.W, Dirty(VL_WORDS_I(arg.W)), WordsOf(arg.a, VL_WORDS_I(arg.W)),
              WordsOf(arg.b, VL_WORDS_I(arg.W))))

NextSigned == Do_VL_MULS_WWW \/ Do_VL_DIVS_WWW \/ Do_VL_MODDIVS_WWW
SpecSigned == InitSigned /\ [][NextSigned]_vars

\* The unsigned operation on the operands' magnitudes, and the signs
Magnitudes(op) ==
    LET la == Abs(arg.a, arg.W)
        lb == Abs(arg.b, arg.W)
    IN  IF op = "VL_MULS_WWW" THEN Mul(la, lb, arg.W)
        ELSE IF arg.b = {} THEN {}
        ELSE IF op = "VL_DIVS_WWW" THEN UDiv(la, lb, arg.W)
        ELSE UMod(la, lb, arg.W)
SignsDiffer == ((arg.W - 1) \in arg.a) # ((arg.W - 1) \in arg.b)

\* C8 as stated: multiply, divide and modulus alike return the unsigned
\* result of the magnitudes, negated exactly when the operands' signs differ.
C8_Original ==
    pc \in {"VL_MULS_WWW", "VL_DIVS_WWW", "VL_MODDIVS_WWW"} =>
        Masked(arg.W, out) =
            IF SignsDiffer THEN Neg(Magnitudes(pc), arg.W) ELSE Magnitudes(pc)

\* C8 amended: negative operands are negated before the unsigned operation;
\* the product and the quotient are negated back exactly when the signs
\* differ, the remainder exactly when the dividend is negative, whatever the
\* divisor's sign.
C8_RemainderTakesDividendSign ==
    /\ pc \in {"VL_MULS_WWW", "VL_DIVS_WWW"} =>
          Masked(arg.W, out) =
              IF SignsDiffer THEN Neg(Magnitudes(pc), arg.W) ELSE Magnitudes(pc)
    /\ pc = "VL_MODDIVS_WWW" =>
          Masked(arg.W, out) =
              IF (arg.W - 1) \in arg.a THEN Neg(Magnitudes(pc), arg.W)
              ELSE Magnitudes(pc)

\* C8 witness: a negative dividend and a negative divisor with a nonzero
\* remainder: the remainder has come back negated although the signs agree.
C8_Witness ==
    /\ pc = "VL_MODDIVS_WWW"
    /\ (arg.W - 1) \in arg.a
    /\ (arg.W - 1) \in arg.b
    /\ Magnitudes(pc) # {}
    /\ Masked(arg.W, out) = Neg(Magnitudes(pc), arg.W)
\* ------------------------------------------------------------------------
\* Arithmetic right shift

\* Seeded fault: the sign as one bit instead of a word of ones
VL_SIGNONES_E_onebit(nbits, lhs) == Shr(lhs, VL_BITBIT_E(nbits - 1))
\* -(VL_SIGN_E(nbits, lhs)): all ones for a clean negative word
VL_SIGNONES_E(nbits, lhs) == Neg(VL_SIGN_E(nbits, lhs), VL_EDATASIZE)

VL_SHIFTRS_III(obits, lbits, lhs, rhs) ==
    LET sign == Neg(Shr(lhs, lbits - 1), VL_IDATASIZE)
        signext == Not(Shr(VL_MASK_I(lbits), rhs), VL_IDATASIZE)
    IN  IF rhs >= VL_IDATASIZE THEN sign \cap VL_MASK_I(obits)
        ELSE Shr(lhs, rhs) \cup (sign \cap (signext \cap VL_MASK_I(obits)))

VL_SHIFTRS_WWI(obits, lbits, owp, lwp, rd) ==
    LET word_shift == VL_BITWORD_E(rd)
        bit_shift == VL_BITBIT_E(rd)
        lmsw == VL_WORDS_I(obits) - 1
        sign == VL_SIGNONES_E(lbits, lwp[lmsw])
        copy_words == VL_WORDS_I(obits) - word_shift
        loffset == rd % (VL_SIZEBITS_E + 1)
        nbitsonright == VL_EDATASIZE - loffset
        words == VL_WORDS_I(obits - rd)
        \* for (i = from; i < VL_WORDS_I(obits); ++i) owp[i] = sign;
        \* owp[lmsw] &= VL_MASK_E(lbits)
        Fill(o, from) ==
            [i \in DOMAIN o |->
                (IF i >= from /\ i <= lmsw THEN sign ELSE o[i])
                    \cap (IF i = lmsw THEN VL_MASK_E(lbits) ELSE IBits)]
        aligned ==
            [i \in DOMAIN owp |->
                IF i >= copy_words THEN owp[i]
                ELSE lwp[i + word_shift]
                       \cup (IF i = copy_words - 1
                             THEN Not(VL_MASK_E(obits), VL_EDATASIZE) \cap sign
                             ELSE {})]
        middle ==
            [i \in DOMAIN owp |->
                IF i >= words THEN owp[i]
                ELSE Shr(lwp[i + word_shift], loffset)
                       \cup (IF i + word_shift + 1 < VL_WORDS_I(obits)
                             THEN Shl(lwp[i + word_shift + 1], nbitsonright, VL_EDATASIZE)
                             ELSE {})
                       \cup (IF i = words - 1
                             THEN sign \cap Not(VL_MASK_E(obits - loffset), VL_EDATASIZE)
                             ELSE {})]
    IN  IF rd >= obits THEN Fill(owp, 0)
        ELSE IF bit_shift = 0 THEN Fill(aligned, copy_words)
        ELSE Fill(middle, words)

\* rwp holds the shift amount in VL_WORDS_I(rbits) words
VL_SHIFTRS_WWW(obits, lbits, rbits, owp, lwp, rwp) ==
    LET overshift == UNION {rwp[i] : i \in 1 .. (VL_WORDS_I(rbits) - 1)}
        owords == VL_WORDS_I(obits)
    IN  IF overshift # {} \/ ~Lt(rwp[0], FromNat(obits))
        THEN IF VL_SIGN_E(lbits, lwp[owords - 1]) # {}
             THEN [VL_MEMSET_ONES_W(owp, 0, owords) EXCEPT
                       ![owords - 1] = IBits \cap VL_MASK_E(lbits)]
             ELSE VL_MEMSET_ZERO_W(owp, 0, owords)
        ELSE VL_SHIFTRS_WWI(obits, lbits, owp, lwp, ToNat(rwp[0]))

\* One arithmetic shift of a clean x of W bits (obits = lbits = W) by rd;
\* the wide shift amount has two words, the high one zero or not
Do_VL_SHIFTRS_III ==
    arg.W <= VL_IDATASIZE /\
    Call("VL_SHIFTRS_III", VL_SHIFTRS_III(arg.W, arg.W, arg.x, arg.rd))
Do_VL_SHIFTRS_WWI ==
    arg.W > VL_QUADSIZE /\
    Call("VL_SHIFTRS_WWI",
         BitsOf(VL_SHIFTRS_WWI(arg.W, arg.W, Dirty(VL_WORDS_I(arg.W)),
                               WordsOf(arg.x, VL_WORDS_I(arg.W)), arg.rd)))
Do_VL_SHIFTRS_WWW ==
    /\ arg.W > VL_QUADSIZE
    /\ \E hi \in {{}, {0}} :
           Call(IF hi = {} THEN "VL_SHIFTRS_WWW" ELSE "VL_SHIFTRS_WWW overshift",
                BitsOf(VL_SHIFTRS_WWW(arg.W, arg.W, VL_QUADSIZE, Dirty(VL_WORDS_I(arg.W)),
                                      WordsOf(arg.x, VL_WORDS_I(arg.W)),
                                      [i \in 0 .. 1 |-> IF i = 0 THEN FromNat(arg.rd) ELSE hi])))

NextShiftRS == Do_VL_SHIFTRS_III \/ Do_VL_SHIFTRS_WWI \/ Do_VL_SHIFTRS_WWW
SpecShiftRS == InitShift /\ [][NextShiftRS]_vars

\* floor(signed_W(x) / 2^rd) mod 2^W: bit i is bit i + rd of x, the sign bit
\* W - 1 standing for every bit above it
FloorDivPow2(x, rd, W) ==
    {i \in 0 .. (W - 1) : (IF i + rd < W THEN i + rd ELSE W - 1) \in x}

\* C11: with obits = lbits = W and a clean lhs, the arithmetic right shifts
\* return, masked to W, floor(signed_W(lhs) / 2^rd) mod 2^W; for rd >= W
\* (or a shift amount with a nonzero high word) that is all zeros for a
\* clear sign bit and all ones masked to W for a set one.
C11_ArithmeticShift ==
    /\ pc \in {"VL_SHIFTRS_III", "VL_SHIFTRS_WWI", "VL_SHIFTRS_WWW"} =>
          out \cap (0 .. (arg.W - 1)) = FloorDivPow2(arg.x, arg.rd, arg.W)
    /\ pc = "VL_SHIFTRS_WWW overshift" =>
          out \cap (0 .. (arg.W - 1)) =
              IF (arg.W - 1) \in arg.x THEN 0 .. (arg.W - 1) ELSE {}

\* C11 witness: a negative value of 97 bits has been shifted right by 33,
\* a shift that is not word-aligned: the top 33 bits are the sign fill.
C11_Witness ==
    /\ pc = "VL_SHIFTRS_WWI"
    /\ arg.W = 97
    /\ arg.rd = 33
    /\ arg.x = {96}
    /\ out = 63 .. 96
\* ------------------------------------------------------------------------
\* Negation, into a distinct buffer and in place

\* Seeded fault: the word is stored before the carry is taken from it
VL_NEGATE_INPLACE_W_stored_first(words, owp_lwp) ==
    LET RECURSIVE Loop(_, _, _)
        Loop(o, carry, i) ==
            IF i >= words THEN o
            ELSE The({Loop([o EXCEPT ![i] = word],
                           IF Lt(word, Not(word, VL_EDATASIZE)) THEN {0} ELSE {}, i + 1)
                      : word \in {Add(Not(o[i], VL_EDATASIZE), carry, VL_EDATASIZE)}})
    IN  Loop(owp_lwp, {0}, 0)

\* word = ~owp_lwp[i] + carry; carry = (word < ~owp_lwp[i]); owp_lwp[i] = word
VL_NEGATE_INPLACE_W(words, owp_lwp) ==
    LET RECURSIVE Loop(_, _, _)
        Loop(o, carry, i) ==
            IF i >= words THEN o
            ELSE The({Loop([o EXCEPT ![i] = word],
                           IF Lt(word, Not(o[i], VL_EDATASIZE)) THEN {0} ELSE {}, i + 1)
                      : word \in {Add(Not(o[i], VL_EDATASIZE), carry, VL_EDATASIZE)}})
    IN  Loop(owp_lwp, {0}, 0)

\* Words of a buffer: zero, one, all ones, the top bit, alternating bits
NegateWords == {{}, {0}, IBits, {VL_EDATASIZE - 1}, {i \in IBits : i % 2 = 1}}

InitNegate ==
    /\ pc = "start"
    /\ arg \in UNION {{[n |-> n, x |-> x] : x \in [0 .. (n - 1) -> NegateWords]} :
                      n \in 1 .. MaxWords}
    /\ out = <<>>

Do_VL_NEGATE_W ==
    arg.n >= 1 /\ Call("VL_NEGATE_W", VL_NEGATE_W(arg.n, Dirty(arg.n), arg.x))
\* The negation of the result of the first, into another buffer
Do_VL_NEGATE_W_again ==
    /\ pc = "VL_NEGATE_W"
    /\ pc' = "VL_NEGATE_W twice"
    /\ out' = VL_NEGATE_W(arg.n, Dirty(arg.n), out)
    /\ UNCHANGED arg
Do_VL_NEGATE_INPLACE_W ==
    arg.n >= 1 /\ Call("VL_NEGATE_INPLACE_W", VL_NEGATE_INPLACE_W(arg.n, arg.x))

NextNegate == Do_VL_NEGATE_W \/ Do_VL_NEGATE_W_again \/ Do_VL_NEGATE_INPLACE_W
SpecNegate == InitNegate /\ [][NextNegate]_vars

\* C12: one VL_NEGATE_W of n words gives (2^(32n) - x) mod 2^(32n), and a
\* second one gives back x in all n words.
C12_NegateInvolution ==
    /\ pc = "VL_NEGATE_W" =>
          BitsOf(out) = Neg(BitsOf(arg.x), VL_EDATASIZE * arg.n)
    /\ pc = "VL_NEGATE_W twice" => out = arg.x

\* C12 witness: a value of three words whose two low words are zero has been
\* negated twice and is back; its negation differs from its complement.
C12_Witness ==
    /\ pc = "VL_NEGATE_W twice"
    /\ arg.n = 3
    /\ arg.x = [i \in 0 .. 2 |-> IF i = 2 THEN {0} ELSE {}]
    /\ out = arg.x

\* C13: VL_NEGATE_INPLACE_W leaves in the buffer exactly the words
\* VL_NEGATE_W writes into a distinct output buffer from the same input.
C13_InplaceEqualsDistinct ==
    pc = "VL_NEGATE_INPLACE_W" => out = VL_NEGATE_W(arg.n, Dirty(arg.n), arg.x)

\* C13 witness: in-place negation of a buffer whose two low words are zero:
\* the carry has rippled through them into the third word.
C13_Witness ==
    /\ pc = "VL_NEGATE_INPLACE_W"
    /\ arg.n = 3
    /\ arg.x = [i \in 0 .. 2 |-> IF i = 2 THEN {0} ELSE {}]
    /\ out = [i \in 0 .. 2 |-> IF i = 2 THEN IBits ELSE {}]
\* ------------------------------------------------------------------------
\* Count of ones and one-hot tests

VL_COUNTONES_I(lhs) ==
    LET n == VL_IDATASIZE
        \* 033333333333, 011111111111 and 030707070707
        Octal3333 == {i \in IBits : i % 3 # 2}
        Octal1111 == {i \in IBits : i % 3 = 0}
        Octal0707 == {i \in IBits : (i \div 3) % 2 = 0}
        r1 == Sub(Sub(lhs, Shr(lhs, 1) \cap Octal3333, n), Shr(lhs, 2) \cap Octal1111, n)
        r2 == Add(r1, Shr(r1, 3), n) \cap Octal0707
        r3 == Add(r2, Shr(r2, 6), n)
    IN  Add(Add(r3, Shr(r3, 12), n), Shr(r3, 24), n) \cap (0 .. 5)

\* for (i = 0; i < words; ++i) r += VL_COUNTONES_E(lwp[i])
VL_COUNTONES_W(words, lwp) ==
    LET RECURSIVE Loop(_, _)
        Loop(r, i) ==
            IF i >= words THEN r
            ELSE The({Loop(s, i + 1)
                      : s \in {Add(r, VL_COUNTONES_I(lwp[i]), VL_EDATASIZE)}})
    IN  Loop({}, 0)

\* A C truth value as an IData
Bool(b) == IF b THEN {0} ELSE {}

VL_ONEHOT_I(lhs) ==
    Bool(lhs \cap Sub(lhs, {0}, VL_IDATASIZE) = {}) \cap Bool(lhs # {})
VL_ONEHOT0_I(lhs) == Bool(lhs \cap Sub(lhs, {0}, VL_IDATASIZE) = {})

\* Seeded fault: every word is tested alone, a second nonzero word passes
VL_ONEHOT_W_each_word(words, lwp) ==
    Bool((\E i \in 0 .. (words - 1) : lwp[i] # {})
         /\ \A i \in 0 .. (words - 1) : VL_ONEHOT0_I(lwp[i]) # {})

VL_ONEHOT_W(words, lwp) ==
    LET RECURSIVE Loop(_, _)
        Loop(one, i) ==
            IF i >= words THEN one
            ELSE IF lwp[i] = {} THEN Loop(one, i + 1)
            ELSE IF one # {} THEN {}
            ELSE IF lwp[i] \cap Sub(lwp[i], {0}, VL_EDATASIZE) # {} THEN {}
            ELSE Loop({0}, i + 1)
    IN  Loop({}, 0)

VL_ONEHOT0_W(words, lwp) ==
    LET RECURSIVE Loop(_, _)
        Loop(one, i) ==
            IF i >= words THEN {0}
            ELSE IF lwp[i] = {} THEN Loop(one, i + 1)
            ELSE IF one THEN {}
            ELSE IF lwp[i] \cap Sub(lwp[i], {0}, VL_EDATASIZE) # {} THEN {}
            ELSE Loop(TRUE, i + 1)
    IN  Loop(FALSE, 0)

\* One word: every choice of the bits at the ends of the word and of its low
\* octal digits, and the full and alternating words.  Several words: each
\* zero, one bit at either end, both, or all ones
CountWords ==
    SUBSET {0, 1, 2, 5, 6, 29, 30, 31}
        \cup {IBits, {i \in IBits : i % 2 = 0}, {i \in IBits : i % 2 = 1}, 0 .. 30, 1 .. 31}
CountWideWords == {{}, {0}, {VL_EDATASIZE - 1}, {0, VL_EDATASIZE - 1}, IBits}

InitCount ==
    /\ pc = "start"
    /\ arg \in {[n |-> 1, x |-> [i \in 0 .. 0 |-> w]] : w \in CountWords}
         \cup UNION {{[n |-> n, x |-> x] : x \in [0 .. (n - 1) -> CountWideWords]} :
                     n \in 2 .. MaxWords}
    /\ out = <<>>

Do_VL_COUNTONES_I == arg.n = 1 /\ Call("VL_COUNTONES_I", VL_COUNTONES_I(arg.x[0]))
Do_VL_ONEHOT_I == arg.n = 1 /\ Call("VL_ONEHOT_I", VL_ONEHOT_I(arg.x[0]))
Do_VL_ONEHOT0_I == arg.n = 1 /\ Call("VL_ONEHOT0_I", VL_ONEHOT0_I(arg.x[0]))
Do_VL_COUNTONES_W == arg.n > 1 /\ Call("VL_COUNTONES_W", VL_COUNTONES_W(arg.n, arg.x))
Do_VL_ONEHOT_W == arg.n > 1 /\ Call("VL_ONEHOT_W", VL_ONEHOT_W(arg.n, arg.x))
Do_VL_ONEHOT0_W == arg.n > 1 /\ Call("VL_ONEHOT0_W", VL_ONEHOT0_W(arg.n, arg.x))

NextCount ==
    \/ Do_VL_COUNTONES_I
    \/ Do_VL_ONEHOT_I
    \/ Do_VL_ONEHOT0_I
    \/ Do_VL_COUNTONES_W
    \/ Do_VL_ONEHOT_W
    \/ Do_VL_ONEHOT0_W
SpecCount == InitCount /\ [][NextCount]_vars

\* The number of set bits of the input
Popcount == Cardinality(BitsOf(arg.x))

\* C14: count-ones returns the number of set bits (so it is 0 exactly for
\* x = 0), onehot returns 1 exactly when that number is 1, and onehot0
\* returns 1 exactly when it is at most 1.
C14_CountAndOneHot ==
    /\ pc \in {"VL_COUNTONES_I", "VL_COUNTONES_W"} =>
          /\ out = FromNat(Popcount)
          /\ (out = {}) = (BitsOf(arg.x) = {})
    /\ pc \in {"VL_ONEHOT_I", "VL_ONEHOT_W"} => out = Bool(Popcount = 1)
    /\ pc \in {"VL_ONEHOT0_I", "VL_ONEHOT0_W"} => out = Bool(Popcount <= 1)

\* C14 witness: three words with one bit set in each of two of them: every
\* word alone is one-hot, the value is not.
C14_Witness ==
    /\ pc = "VL_ONEHOT_W"
    /\ arg.n = 3
    /\ arg.x = [i \in 0 .. 2 |-> IF i = 1 THEN {} ELSE {VL_EDATASIZE - 1}]
    /\ out = {}
\* ------------------------------------------------------------------------
\* Replication

\* for (i = 1; i < rep; ++i) { returndata = returndata << lbits; returndata |= ld; }
RECURSIVE ReplicateShiftOr(_, _, _, _, _)
ReplicateShiftOr(returndata, lbits, ld, n, left) ==
    IF left <= 0 THEN returndata
    ELSE The({ReplicateShiftOr(r, lbits, ld, n, left - 1)
              : r \in {Shl(returndata, lbits, n) \cup ld}})

\* Seeded fault: the copies are laid one bit too close to each other
VL_REPLICATE_III_overlap(lbits, ld, rep) ==
    ReplicateShiftOr(ld, lbits - 1, ld, VL_IDATASIZE, rep - 1)
VL_REPLICATE_III(lbits, ld, rep) ==
    ReplicateShiftOr(ld, lbits, ld, VL_IDATASIZE, rep - 1)
VL_REPLICATE_QII(lbits, ld, rep) ==
    ReplicateShiftOr(ld, lbits, ld, VL_QUADSIZE, rep - 1)

VL_REPLICATE_WII(lbits, owp, ld, rep) ==
    LET RECURSIVE Loop(_, _)
        Loop(o, i) ==
            IF i >= rep THEN o
            ELSE The({Loop(n, i + 1)
                      : n \in {_vl_insert_WI(o, ld, i * lbits + lbits - 1, i * lbits, 0)}})
    IN  Loop([i \in DOMAIN owp |->
                 IF i = 0 THEN ld ELSE IF i < VL_WORDS_I(lbits * rep) THEN {} ELSE owp[i]],
             1)

VL_REPLICATE_WWI(lbits, owp, lwp, rep) ==
    LET RECURSIVE Loop(_, _)
        Loop(o, i) ==
            IF i >= rep THEN o
            ELSE The({Loop(n, i + 1)
                      : n \in {_vl_insert_WW(o, lwp, i * lbits + lbits - 1, i * lbits, 0)}})
    IN  Loop([i \in DOMAIN owp |->
                 IF i < VL_WORDS_I(lbits) THEN lwp[i]
                 ELSE IF i < VL_WORDS_I(lbits * rep) THEN {} ELSE owp[i]],
             1)

\* Replications of a clean ld of lbits bits, rep times, into at most
\* 2 * MaxWords words
RepWidths == {1, 3, 8, 16, 31, 32, 65, 96, 100}
RepCounts == {1, 2, 3, 4, 5, 8}

InitReplicate ==
    /\ pc = "start"
    /\ arg \in UNION {{[lbits |-> lbits, rep |-> rep, ld |-> ld] : ld \in Patterns(lbits)} :
                      <<lbits, rep>> \in {p \in RepWidths \X RepCounts :
                                            p[1] * p[2] <= VL_EDATASIZE * 2 * MaxWords}}
    /\ out = <<>>

Do_VL_REPLICATE_III ==
    /\ arg.lbits * arg.rep <= VL_IDATASIZE
    /\ Call("VL_REPLICATE_III", VL_REPLICATE_III(arg.lbits, arg.ld, arg.rep))
Do_VL_REPLICATE_QII ==
    /\ arg.lbits <= VL_IDATASIZE
    /\ arg.lbits * arg.rep > VL_IDATASIZE
    /\ arg.lbits * arg.rep <= VL_QUADSIZE
    /\ Call("VL_REPLICATE_QII", VL_REPLICATE_QII(arg.lbits, arg.ld, arg.rep))
Do_VL_REPLICATE_WII ==
    /\ arg.lbits <= VL_IDATASIZE
    /\ arg.lbits * arg.rep > VL_QUADSIZE
    /\ Call("VL_REPLICATE_WII",
            BitsOf(VL_REPLICATE_WII(arg.lbits, Dirty(VL_WORDS_I(arg.lbits * arg.rep)),
                                    arg.ld, arg.rep)))
Do_VL_REPLICATE_WWI ==
    /\ arg.lbits > VL_QUADSIZE
    /\ Call("VL_REPLICATE_WWI",
            BitsOf(VL_REPLICATE_WWI(arg.lbits, Dirty(VL_WORDS_I(arg.lbits * arg.rep)),
                                    WordsOf(arg.ld, VL_WORDS_I(arg.lbits)), arg.rep)))

NextReplicate ==
    \/ Do_VL_REPLICATE_III
    \/ Do_VL_REPLICATE_QII
    \/ Do_VL_REPLICATE_WII
    \/ Do_VL_REPLICATE_WWI
SpecReplicate == InitReplicate /\ [][NextReplicate]_vars

\* The sum over i in 0 .. rep - 1 of ld * 2^(i * lbits), for a clean ld: the
\* copies do not overlap, so bit b is bit b % lbits of ld
Copies(lbits, ld, rep) == {b \in 0 .. (lbits * rep - 1) : (b % lbits) \in ld}

ReplicateOps ==
    {"VL_REPLICATE_III", "VL_REPLICATE_QII", "VL_REPLICATE_WII", "VL_REPLICATE_WWI"}

\* C15: replicating a clean ld of lbits bits rep times gives the sum of
\* ld * 2^(i * lbits) over i in 0 .. rep - 1 and nothing at or above bit
\* lbits * rep, in the one-word, two-word and wide forms.
C15_ReplicateCopies ==
    pc \in ReplicateOps => out = Copies(arg.lbits, arg.ld, arg.rep)

\* C15 witness: 0b101 of 3 bits replicated 4 times is 0b101101101101.
C15_Witness ==
    /\ pc = "VL_REPLICATE_III"
    /\ arg.lbits = 3
    /\ arg.rep = 4
    /\ arg.ld = {0, 2}
    /\ out = {0, 2, 3, 5, 6, 8, 9, 11}
\* ------------------------------------------------------------------------
\* Wide concatenation

_vl_insert_WQ(iowp, ld, hbit, lbit, rbits) ==
    _vl_insert_WW(iowp, VL_SET_WQ(ld), hbit, lbit, rbits)

\* owp[0] = rd; VL_MEMSET_ZERO_W(owp + 1, VL_WORDS_I(obits) - 1)
VL_CONCAT_WII(obits, lbits, rbits, owp, ld, rd) ==
    _vl_insert_WI(VL_MEMSET_ZERO_W([owp EXCEPT ![0] = rd], 1, VL_WORDS_I(obits) - 1),
                  ld, rbits + lbits - 1, rbits, 0)
VL_CONCAT_WWI(obits, lbits, rbits, owp, lwp, rd) ==
    _vl_insert_WW(VL_MEMSET_ZERO_W([owp EXCEPT ![0] = rd], 1, VL_WORDS_I(obits) - 1),
                  lwp, rbits + lbits - 1, rbits, 0)
\* Seeded fault: the words above the right operand are not zeroed
VL_CONCAT_WIW_unzeroed(obits, lbits, rbits, owp, ld, rwp) ==
    _vl_insert_WI(VL_MEMCPY_W(owp, rwp, VL_WORDS_I(rbits)), ld, rbits + lbits - 1, rbits, 0)
\* VL_MEMCPY_W(owp, rwp, rwords); VL_MEMSET_ZERO_W(owp + rwords, ..)
VL_CONCAT_WIW(obits, lbits, rbits, owp, ld, rwp) ==
    _vl_insert_WI(VL_MEMSET_ZERO_W(VL_MEMCPY_W(owp, rwp, VL_WORDS_I(rbits)),
                                   VL_WORDS_I(rbits), VL_WORDS_I(obits) - VL_WORDS_I(rbits)),
                  ld, rbits + lbits - 1, rbits, 0)
\* VL_SET_WQ(owp, rd); VL_MEMSET_ZERO_W(owp + VL_WQ_WORDS_E, ..)
VL_CONCAT_WQQ(obits, lbits, rbits, owp, ld, rd) ==
    _vl_insert_WQ(VL_MEMSET_ZERO_W(VL_MEMCPY_W(owp, VL_SET_WQ(rd), 2),
                                   2, VL_WORDS_I(obits) - 2),
                  ld, rbits + lbits - 1, rbits, 0)
VL_CONCAT_WWW(obits, lbits, rbits, owp, lwp, rwp) ==
    _vl_insert_WW(VL_MEMSET_ZERO_W(VL_MEMCPY_W(owp, rwp, VL_WORDS_I(rbits)),
                                   VL_WORDS_I(rbits), VL_WORDS_I(obits) - VL_WORDS_I(rbits)),
                  lwp, rbits + lbits - 1, rbits, 0)

\* Operand widths of one word, two words and more, and the letter of each
ConcatWidths == {1, 8, 31, 32, 33, 40, 64, 65, 96, 100}
Letter(bits) ==
    IF bits <= VL_IDATASIZE THEN "I" ELSE IF bits <= VL_QUADSIZE THEN "Q" ELSE "W"
ConcatForms == {<<"I", "I">>, <<"W", "I">>, <<"I", "W">>, <<"Q", "Q">>, <<"W", "W">>}

\* One concatenation {l, r} of clean operands into a buffer of
\* lbits + rbits bits
InitConcat ==
    /\ pc = "start"
    /\ arg \in UNION {{[lbits |-> p[1], rbits |-> p[2], l |-> l, r |-> r] :
                          l \in Patterns(p[1]), r \in Patterns(p[2])} :
                      p \in {q \in ConcatWidths \X ConcatWidths :
                               <<Letter(q[1]), Letter(q[2])>> \in ConcatForms}}
    /\ out = <<>>

\* The output buffer before the call, and an operand as words
ConcatOut == Dirty(VL_WORDS_I(arg.lbits + arg.rbits))
ConcatL == WordsOf(arg.l, VL_WORDS_I(arg.lbits))
ConcatR == WordsOf(arg.r, VL_WORDS_I(arg.rbits))

Do_VL_CONCAT_WII ==
    /\ <<Letter(arg.lbits), Letter(arg.rbits)>> = <<"I", "I">>
    /\ Call("VL_CONCAT_WII",
            BitsOf(VL_CONCAT_WII(arg.lbits + arg.rbits, arg.lbits, arg.rbits, ConcatOut,
                                 arg.l, arg.r)))
Do_VL_CONCAT_WWI ==
    /\ <<Letter(arg.lbits), Letter(arg.rbits)>> = <<"W", "I">>
    /\ Call("VL_CONCAT_WWI",
            BitsOf(VL_CONCAT_WWI(arg.lbits + arg.rbits, arg.lbits, arg.rbits, ConcatOut,
                                 ConcatL, arg.r)))
Do_VL_CONCAT_WIW ==
    /\ <<Letter(arg.lbits), Letter(arg.rbits)>> = <<"I", "W">>
    /\ Call("VL_CONCAT_WIW",
            BitsOf(VL_CONCAT_WIW(arg.lbits + arg.rbits, arg.lbits, arg.rbits, ConcatOut,
                                 arg.l, ConcatR)))
Do_VL_CONCAT_WQQ ==
    /\ <<Letter(arg.lbits), Letter(arg.rbits)>> = <<"Q", "Q">>
    /\ Call("VL_CONCAT_WQQ",
            BitsOf(VL_CONCAT_WQQ(arg.lbits + arg.rbits, arg.lbits, arg.rbits, ConcatOut,
                                 arg.l, arg.r)))
Do_VL_CONCAT_WWW ==
    /\ <<Letter(arg.lbits), Letter(arg.rbits)>> = <<"W", "W">>
    /\ Call("VL_CONCAT_WWW",
            BitsOf(VL_CONCAT_WWW(arg.lbits + arg.rbits, arg.lbits, arg.rbits, ConcatOut,
                                 ConcatL, ConcatR)))

NextConcat ==
    \/ Do_VL_CONCAT_WII
    \/ Do_VL_CONCAT_WWI
    \/ Do_VL_CONCAT_WIW
    \/ Do_VL_CONCAT_WQQ
    \/ Do_VL_CONCAT_WWW
SpecConcat == InitConcat /\ [][NextConcat]_vars

\* C16: the wide concatenation of clean l and r writes l * 2^rbits + r into
\* all words of out, whatever they held before: r in the low rbits bits, l
\* in the next lbits bits, and no bit at or above lbits + rbits.
C16_ConcatExactAndClean ==
    pc # "start" => out = arg.r \cup {b + arg.rbits : b \in arg.l}

\* C16 witness: 8 bits of ones above a 100-bit value of ones, into four
\* words of ones: the top 20 bits of the last word have been cleared.
C16_Witness ==
    /\ pc = "VL_CONCAT_WIW"
    /\ arg.lbits = 8
    /\ arg.rbits = 100
    /\ arg.l = 0 .. 7
    /\ arg.r = 0 .. 99
    /\ out = 0 .. 107

\* ------------------------------------------------------------------------
\* Range insert at or past the end of the destination (VL_ASSIGNSEL_W*)
\*
\* The destination is a buffer of VL_WORDS_I(rbits) words.  The insert
\* functions index iowp[hword] without a bound, so a store past the buffer
\* lands in whatever memory follows it: the model lays the buffer out in a
\* memory that continues for VL_WORDS_I(width) more words, whose prior
\* contents are arbitrary.

VL_ASSIGNSEL_WQ(rbits, obits, lsb, iowp, rhs) ==
    _vl_insert_WQ(iowp, rhs, lsb + obits - 1, lsb, rbits)

InsertDstWidths == {40, 64, 65, 96, 100}
InsertLsbs(rbits) ==
    {l \in {0, 4, 32, 36, 60, 64, rbits - 8, rbits - 1} : l >= 0 /\ l < rbits}
InsertSrcWidths == {1, 8, 32, 33, 40, 64, 65, 96}

\* Bits of the memory that follows a buffer of rbits bits, up to memwords
BeyondBits(rbits, memwords) ==
    (VL_EDATASIZE * VL_WORDS_I(rbits)) .. (VL_EDATASIZE * memwords - 1)

InitInsert ==
    /\ pc = "start"
    /\ arg \in UNION {UNION {UNION {
           {[rbits |-> rbits, lo |-> lo, width |-> width, x |-> x, v |-> v,
             memwords |-> VL_WORDS_I(rbits) + VL_WORDS_I(width),
             beyond |-> beyond] :
                x \in {{}, 0 .. (rbits - 1)},
                v \in Patterns(VL_EDATASIZE * VL_WORDS_I(width)),
                beyond \in {{}, BeyondBits(rbits,
                                           VL_WORDS_I(rbits) + VL_WORDS_I(width))}} :
           width \in InsertSrcWidths} :
           lo \in InsertLsbs(rbits)} : rbits \in InsertDstWidths}
    /\ out = <<>>

InsertMemory == WordsOf(arg.x \cup arg.beyond, arg.memwords)

Do_VL_ASSIGNSEL_WI_end ==
    /\ arg.width <= VL_IDATASIZE
    /\ Call("VL_ASSIGNSEL_WI",
            VL_ASSIGNSEL_WI(arg.rbits, arg.width, arg.lo, InsertMemory, arg.v))
Do_VL_ASSIGNSEL_WQ_end ==
    /\ arg.width > VL_IDATASIZE
    /\ arg.width <= VL_QUADSIZE
    /\ Call("VL_ASSIGNSEL_WQ",
            VL_ASSIGNSEL_WQ(arg.rbits, arg.width, arg.lo, InsertMemory, arg.v))
Do_VL_ASSIGNSEL_WW_end ==
    /\ arg.width > VL_QUADSIZE
    /\ Call("VL_ASSIGNSEL_WW",
            VL_ASSIGNSEL_WW(arg.rbits, arg.width, arg.lo, InsertMemory,
                            WordsOf(arg.v, VL_WORDS_I(arg.width))))

NextInsert ==
    \/ Do_VL_ASSIGNSEL_WI_end
    \/ Do_VL_ASSIGNSEL_WQ_end
    \/ Do_VL_ASSIGNSEL_WW_end

SpecInsert == InitInsert /\ [][NextInsert]_vars

\* Bits of the destination buffer at positions >= rbits within its words
InsertPadBits ==
    {b \in BitsOf(out) : b >= arg.rbits /\ b < VL_EDATASIZE * VL_WORDS_I(arg.rbits)}
\* The memory following the buffer is as it was before the call
InsertStaysInBuffer ==
    {b \in BitsOf(out) : b >= VL_EDATASIZE * VL_WORDS_I(arg.rbits)} = arg.beyond
InsertHword == VL_BITWORD_E(arg.lo + arg.width - 1)

\* C17 as stated: after a range insert with lsb < rbits and any insert width
\* into a clean destination, from a possibly dirty source, every bit of the
\* destination at a position >= rbits within words(rbits) is zero
C17_Original ==
    pc # "start" => InsertPadBits = {}

\* The range [lo + width - 1 : lo] ends in the word after the last, partly
\* used word of the destination: the low part is stored unmasked into the
\* last word, and the high part is stored into the word after the buffer
C17_Witness ==
    /\ pc = "VL_ASSIGNSEL_WI"
    /\ arg.rbits = 40 /\ arg.lo = 36 /\ arg.width = 32
    /\ arg.x = {} /\ arg.v = IBits /\ arg.beyond = {}
    /\ out[1] = 4 .. 31
    /\ out[2] = 0 .. 3

\* What the top-word mask does achieve: when the range ends in the word that
\* holds bit rbits, and that word belongs to the buffer, no bit at or above
\* rbits is set and nothing is stored outside the buffer
InsertEndsInLastWord ==
    (/\ pc # "start"
     /\ arg.rbits % VL_EDATASIZE # 0
     /\ InsertHword = VL_BITWORD_E(arg.rbits))
        => InsertPadBits = {} /\ InsertStaysInBuffer
\* An insert of at most one word that would end in the word following a
\* buffer of whole words leaves that word alone (line 1341)
InsertSkipsWordAfterBuffer ==
    (/\ pc = "VL_ASSIGNSEL_WI"
     /\ arg.rbits % VL_EDATASIZE = 0)
        => InsertStaysInBuffer

\* ------------------------------------------------------------------------
\* Signed comparison

\* The three-way result of comparing two words as unsigned numbers
CmpWord(l, r) == IF Lt(r, l) THEN 1 ELSE IF Lt(l, r) THEN -1 ELSE 0

\* for (; i >= 0; --i) { if (lwp[i] > rwp[i]) return 1; if (<) return -1; }
RECURSIVE CmpFrom(_, _, _)
CmpFrom(i, lwp, rwp) ==
    IF i < 0 THEN 0
    ELSE IF CmpWord(lwp[i], rwp[i]) # 0 THEN CmpWord(lwp[i], rwp[i])
    ELSE CmpFrom(i - 1, lwp, rwp)

_vl_cmp_w(words, lwp, rwp) == CmpFrom(words - 1, lwp, rwp)

_vl_cmps_w_unsigned(lbits, lwp, rwp) == _vl_cmp_w(VL_WORDS_I(lbits), lwp, rwp)

_vl_cmps_w(lbits, lwp, rwp) ==
    LET words == VL_WORDS_I(lbits)
        i == words - 1
        lsign == VL_SIGN_E(lbits, lwp[i])
        rsign == VL_SIGN_E(lbits, rwp[i])
    IN  IF lsign = {} /\ rsign # {} THEN 1
        ELSE IF lsign # {} /\ rsign = {} THEN -1
        ELSE CmpFrom(i, lwp, rwp)

\* lhs < rhs on two int64_t holding the bit patterns lhs and rhs
Int64Lt(lhs, rhs) ==
    IF ((VL_QUADSIZE - 1) \in lhs) # ((VL_QUADSIZE - 1) \in rhs)
    THEN (VL_QUADSIZE - 1) \in lhs
    ELSE Lt(lhs, rhs)

VL_GTS_III(lbits, lhs, rhs) ==
    Bool(Int64Lt(VL_EXTENDS_QQ(VL_QUADSIZE, lbits, rhs),
                 VL_EXTENDS_QQ(VL_QUADSIZE, lbits, lhs)))
VL_LTS_III(lbits, lhs, rhs) ==
    Bool(Int64Lt(VL_EXTENDS_QQ(VL_QUADSIZE, lbits, lhs),
                 VL_EXTENDS_QQ(VL_QUADSIZE, lbits, rhs)))

\* Two clean operands of one width: the boundary patterns and their
\* neighbours that differ in one low bit
CmpOperands(W) == Patterns(W) \cup {p \cup {0} : p \in Patterns(W)}

InitCmp ==
    /\ pc = "start"
    /\ arg \in UNION {
           {[W |-> W, l |-> l, r |-> r] :
                l \in CmpOperands(W), r \in CmpOperands(W)} : W \in AllWidths}
    /\ out = <<>>

Do__vl_cmps_w ==
    /\ arg.W >= 1
    /\ Call("_vl_cmps_w",
            _vl_cmps_w(arg.W, WordsOf(arg.l, VL_WORDS_I(arg.W)),
                       WordsOf(arg.r, VL_WORDS_I(arg.W))))
Do_VL_LTS_III ==
    /\ arg.W <= VL_IDATASIZE
    /\ Call("VL_LTS_III", VL_LTS_III(arg.W, arg.l, arg.r))
Do_VL_GTS_III ==
    /\ arg.W <= VL_IDATASIZE
    /\ Call("VL_GTS_III", VL_GTS_III(arg.W, arg.l, arg.r))

NextCmp ==
    \/ Do__vl_cmps_w
    \/ Do_VL_LTS_III
    \/ Do_VL_GTS_III

SpecCmp == InitCmp /\ [][NextCmp]_vars

\* signed_W(x) < signed_W(y): adding 2^(W-1) to both, i.e. inverting the
\* sign bit, turns the signed order into the unsigned one
SignedLess(x, y, W) ==
    Lt((x \ {W - 1}) \cup ({W - 1} \ x), (y \ {W - 1}) \cup ({W - 1} \ y))
SignOfDifference(x, y, W) ==
    IF SignedLess(x, y, W) THEN -1 ELSE IF SignedLess(y, x, W) THEN 1 ELSE 0

\* C18: _vl_cmps_w returns the sign of signed(l) - signed(r) for clean
\* operands of any width; a negative operand sorts below a non-negative one
\* and operands of equal sign are in unsigned order; VL_LTS_III and
\* VL_GTS_III give that same ordering on one-word values
C18_SignedOrdering ==
    /\ pc = "_vl_cmps_w" =>
         /\ out = SignOfDifference(arg.l, arg.r, arg.W)
         /\ ((arg.W - 1) \in arg.l /\ (arg.W - 1) \notin arg.r) => out = -1
         /\ ((arg.W - 1) \in arg.l <=> (arg.W - 1) \in arg.r) =>
                out = _vl_cmp_w(VL_WORDS_I(arg.W),
                                WordsOf(arg.l, VL_WORDS_I(arg.W)),
                                WordsOf(arg.r, VL_WORDS_I(arg.W)))
    /\ pc = "VL_LTS_III" =>
         /\ out = Bool(SignedLess(arg.l, arg.r, arg.W))
         /\ out = Bool(_vl_cmps_w(arg.W, WordsOf(arg.l, 1), WordsOf(arg.r, 1)) < 0)
    /\ pc = "VL_GTS_III" =>
         /\ out = Bool(SignedLess(arg.r, arg.l, arg.W))
         /\ out = Bool(_vl_cmps_w(arg.W, WordsOf(arg.l, 1), WordsOf(arg.r, 1)) > 0)

\* -2^96 against 2^96 - 1 at 97 bits: unsigned the left operand is the
\* larger, signed it is the smaller
C18_Witness ==
    /\ pc = "_vl_cmps_w"
    /\ arg.W = 97 /\ arg.l = {96} /\ arg.r = 0 .. 95
    /\ out = -1

\* ------------------------------------------------------------------------
\* Power

\* One pass with the squaring left out: power stays lhs
PowStep_nosquare(st, i, rhs, n) ==
    [power |-> st.power, out |-> IF i \in rhs THEN Mul(st.out, st.power, n) ELSE st.out]

\* One pass of the loop body for exponent bit i, on (power, out) in n bits:
\*   if (i > 0) power = power * power;  if (rhs & (1ULL << i)) out *= power;
PowStep(st, i, rhs, n) ==
    The({[power |-> p, out |-> IF i \in rhs THEN Mul(st.out, p, n) ELSE st.out] :
            p \in {IF i > 0 THEN Mul(st.power, st.power, n) ELSE st.power}})

\* Passes lo .. hi of the loop, in order
RECURSIVE PowPasses(_, _, _, _, _)
PowPasses(st, lo, hi, rhs, n) ==
    IF lo > hi THEN st
    ELSE IF lo = hi THEN PowStep(st, lo, rhs, n)
    ELSE The({PowPasses(s, ((lo + hi) \div 2) + 1, hi, rhs, n) :
                 s \in {PowPasses(st, lo, (lo + hi) \div 2, rhs, n)}})

\* IData power = lhs; IData out = 1; for (int i = 0; i < rbits; ++i) ...
VL_POW_III(obits, lbits, rbits, lhs, rhs) ==
    IF rhs = {} THEN {0}
    ELSE IF lhs = {} THEN {}
    ELSE PowPasses([power |-> lhs, out |-> {0}], 0, rbits - 1, rhs, VL_IDATASIZE).out
VL_POW_QQQ(obits, lbits, rbits, lhs, rhs) ==
    IF rhs = {} THEN {0}
    ELSE IF lhs = {} THEN {}
    ELSE PowPasses([power |-> lhs, out |-> {0}], 0, rbits - 1, rhs, VL_QUADSIZE).out

\* Bases of n bits: 0, 1, 2, 3, 5, 2^(n/2), -1, -2, 2^(n-1) + 1, 0101..01
PowBases(n) ==
    { {}, {0}, {1}, {0, 1}, {0, 2}, {n \div 2}, 0 .. (n - 1), 1 .. (n - 1),
      {0, n - 1}, {i \in 0 .. (n - 1) : i % 2 = 0} }
\* Exponents clean at rbits: every value below 2^rbits when rbits is small,
\* and for a full-width exponent the values that overflow every even base
\* and wrap the order 2^(n-2) of the odd ones
SmallExpBits == 5
PowExponents(rbits) ==
    IF rbits <= SmallExpBits THEN SUBSET (0 .. (rbits - 1))
    ELSE { {}, {0}, {SmallExpBits}, {0, SmallExpBits}, {rbits - 2}, {rbits - 1},
           {0, 1, rbits - 2}, {0, rbits - 1}, {1, rbits - 2, rbits - 1},
           0 .. (rbits - 1) }

InitPow ==
    /\ pc = "start"
    /\ arg \in UNION {
           {[n |-> VL_IDATASIZE, rbits |-> rbits, lhs |-> lhs, rhs |-> rhs] :
                lhs \in PowBases(VL_IDATASIZE), rhs \in PowExponents(rbits)} :
           rbits \in {1, 3, SmallExpBits, VL_IDATASIZE}}
         \cup UNION {
           {[n |-> VL_QUADSIZE, rbits |-> rbits, lhs |-> lhs, rhs |-> rhs] :
                lhs \in PowBases(VL_QUADSIZE), rhs \in PowExponents(rbits)} :
           rbits \in {2, VL_QUADSIZE}}
    /\ out = <<>>

Do_VL_POW_III ==
    /\ arg.n = VL_IDATASIZE
    /\ Call("VL_POW_III", VL_POW_III(arg.n, arg.n, arg.rbits, arg.lhs, arg.rhs))
Do_VL_POW_QQQ ==
    /\ arg.n = VL_QUADSIZE
    /\ Call("VL_POW_QQQ", VL_POW_QQQ(arg.n, arg.n, arg.rbits, arg.lhs, arg.rhs))

NextPow ==
    \/ Do_VL_POW_III
    \/ Do_VL_POW_QQQ

SpecPow == InitPow /\ [][NextPow]_vars

\* x^e modulo 2^n for a small natural number e: the product of e copies of
\* x, multiplied out as a balanced tree of e - 1 multiplications
RECURSIVE PowNaive(_, _, _)
PowNaive(x, e, n) ==
    IF e = 0 THEN {0}
    ELSE IF e = 1 THEN x
    ELSE The({Mul(p, q, n) : p \in {PowNaive(x, e \div 2, n)},
                            q \in {PowNaive(x, e - (e \div 2), n)}})

\* out is x^e modulo 2^n, for the exponents of PowExponents.  Below
\* 2^(SmallExpBits + 1) the power is multiplied out.  Above it, an even base
\* has at least n factors of two, so the power is 0; an odd base has an order
\* dividing 2^(n-2), so the exponent is reduced modulo 2^(n-2), and for the
\* residue 2^(n-2) - 1 the power is the inverse of x
IsPower(result, x, e, n) ==
    IF e \subseteq 0 .. SmallExpBits THEN result = PowNaive(x, ToNat(e), n)
    ELSE IF 0 \notin x THEN result = {}
    ELSE IF e \cap (0 .. (n - 3)) \subseteq 0 .. SmallExpBits
         THEN result = PowNaive(x, ToNat(e \cap (0 .. (n - 3))), n)
    ELSE /\ e \cap (0 .. (n - 3)) = 0 .. (n - 3)
         /\ Mul(result, x, n) = {0}

\* C19: VL_POW_III returns lhs^rhs mod 2^32 and VL_POW_QQQ lhs^rhs mod 2^64
\* for every base and every exponent clean at rbits; exponent 0 gives 1 for
\* any base, 0 included, and base 0 with a nonzero exponent gives 0
C19_UnsignedPower ==
    pc # "start" =>
        /\ IsPower(out, arg.lhs, arg.rhs, arg.n)
        /\ arg.rhs = {} => out = {0}
        /\ (arg.lhs = {} /\ arg.rhs # {}) => out = {}

\* 3^(2^31 + 1) mod 2^32 = 3: all 32 exponent bits are walked, and the 31
\* squarings bring the power back to 1 before the top bit is applied
C19_Witness ==
    /\ pc = "VL_POW_III"
    /\ arg.rbits = VL_IDATASIZE
    /\ arg.lhs = {0, 1} /\ arg.rhs = {0, VL_IDATASIZE - 1}
    /\ out = {0, 1}

\* ------------------------------------------------------------------------
\* Signed power

\* (lhs) >> VL_BITBIT_I(nbits - 1); an IData has the bits of an EData
VL_SIGN_I(nbits, lhs) == Shr(lhs, VL_BITBIT_E(nbits - 1))
VL_SIGN_Q(nbits, lhs) == Shr(lhs, VL_BITBIT_Q(nbits - 1))

\* The test for a base of -1 without its lsign conjunct
VL_POWSS_III_anysign(obits, lbits, rbits, lhs, rhs, lsign, rsign) ==
    IF rhs = {} THEN {0}
    ELSE IF rsign /\ VL_SIGN_I(rbits, rhs) # {}
    THEN IF lhs = {} THEN {}
         ELSE IF lhs = {0} THEN {0}
         ELSE IF lhs = VL_MASK_I(obits)
              THEN IF rhs \cap {0} # {} THEN VL_MASK_I(obits) ELSE {0}
         ELSE {}
    ELSE VL_POW_III(obits, rbits, rbits, lhs, rhs)

VL_POWSS_III(obits, lbits, rbits, lhs, rhs, lsign, rsign) ==
    IF rhs = {} THEN {0}
    ELSE IF rsign /\ VL_SIGN_I(rbits, rhs) # {}
    THEN IF lhs = {} THEN {}
         ELSE IF lhs = {0} THEN {0}
         ELSE IF lsign /\ lhs = VL_MASK_I(obits)
              THEN IF rhs \cap {0} # {} THEN VL_MASK_I(obits) ELSE {0}
         ELSE {}
    ELSE VL_POW_III(obits, rbits, rbits, lhs, rhs)
VL_POWSS_QQQ(obits, lbits, rbits, lhs, rhs, lsign, rsign) ==
    IF rhs = {} THEN {0}
    ELSE IF rsign /\ VL_SIGN_Q(rbits, rhs) # {}
    THEN IF lhs = {} THEN {}
         ELSE IF lhs = {0} THEN {0}
         ELSE IF lsign /\ lhs = VL_MASK_Q(obits)
              THEN IF rhs \cap {0} # {} THEN VL_MASK_Q(obits) ELSE {0}
         ELSE {}
    ELSE VL_POW_QQQ(obits, rbits, rbits, lhs, rhs)

\* Clean values of W bits: 0, 1, 2, 3, -1, -2, the most negative, and the
\* most negative plus one
PowssValues(W) ==
    {v \cap (0 .. (W - 1)) :
        v \in { {}, {0}, {1}, {0, 1}, 0 .. (W - 1), 1 .. (W - 1), {W - 1}, {0, W - 1} }}

InitPowss ==
    /\ pc = "start"
    /\ arg \in UNION {UNION {
           {[obits |-> obits, rbits |-> rbits, lhs |-> lhs, rhs |-> rhs,
             lsign |-> lsign, rsign |-> rsign] :
                lhs \in PowssValues(obits), rhs \in PowssValues(rbits),
                lsign \in BOOLEAN, rsign \in BOOLEAN} :
           rbits \in IF obits <= VL_IDATASIZE THEN {1, 4, VL_IDATASIZE}
                                              ELSE {2, VL_QUADSIZE}} :
           obits \in {1, 8, VL_IDATASIZE, 40, VL_QUADSIZE}}
    /\ out = <<>>

Do_VL_POWSS_III ==
    /\ arg.obits <= VL_IDATASIZE
    /\ Call("VL_POWSS_III",
            VL_POWSS_III(arg.obits, arg.obits, arg.rbits, arg.lhs, arg.rhs,
                         arg.lsign, arg.rsign))
Do_VL_POWSS_QQQ ==
    /\ arg.obits > VL_IDATASIZE
    /\ Call("VL_POWSS_QQQ",
            VL_POWSS_QQQ(arg.obits, arg.obits, arg.rbits, arg.lhs, arg.rhs,
                         arg.lsign, arg.rsign))

NextPowss ==
    \/ Do_VL_POWSS_III
    \/ Do_VL_POWSS_QQQ

SpecPowss == InitPowss /\ [][NextPowss]_vars

\* The exponent is signed and its sign bit, bit rbits - 1, is set
NegativeExponent == arg.rsign /\ (arg.rbits - 1) \in arg.rhs
\* The base is signed and all of its obits bits are set
BaseMinusOne == arg.lsign /\ arg.lhs = 0 .. (arg.obits - 1)
UnsignedPower ==
    IF arg.obits <= VL_IDATASIZE
    THEN VL_POW_III(arg.obits, arg.rbits, arg.rbits, arg.lhs, arg.rhs)
    ELSE VL_POW_QQQ(arg.obits, arg.rbits, arg.rbits, arg.lhs, arg.rhs)

\* C20: with a signed exponent whose sign bit is set, VL_POWSS_III and
\* VL_POWSS_QQQ return 0 for base 0, 1 for base 1, for a signed base of -1
\* 1 when the exponent is even and -1 masked to obits when it is odd, and 0
\* for every other base; a zero exponent gives 1; in every other case the
\* result is the unsigned power of the same operands
C20_SignedPowerNegativeExponent ==
    pc # "start" =>
        /\ NegativeExponent =>
             /\ arg.lhs = {} => out = {}
             /\ arg.lhs = {0} => out = {0}
             /\ (BaseMinusOne /\ 0 \notin arg.rhs) => out = {0}
             /\ (BaseMinusOne /\ 0 \in arg.rhs) => out = 0 .. (arg.obits - 1)
             /\ (arg.lhs # {} /\ arg.lhs # {0} /\ ~BaseMinusOne) => out = {}
        /\ arg.rhs = {} => out = {0}
        /\ (arg.rhs # {} /\ ~NegativeExponent) => out = UnsignedPower

\* (-1)^(-1) at 8 bits is -1, while the unsigned power 255^15 mod 2^32 is not
C20_Witness ==
    /\ pc = "VL_POWSS_III"
    /\ arg.obits = 8 /\ arg.rbits = 4
    /\ arg.lsign /\ arg.rsign
    /\ arg.lhs = 0 .. 7 /\ arg.rhs = 0 .. 3
    /\ out = 0 .. 7
    /\ out # UnsignedPower

\* ------------------------------------------------------------------------
\* Ceiling log2

\* --lhs;  for (shifts = 0; lhs != 0; ++shifts) lhs = lhs >> 1;
\* the loop leaves at the first shifts with (lhs - 1) >> shifts = 0
CLog2Shifts(lhs, n) ==
    LET l == Sub(lhs, {0}, n)
    IN  CHOOSE shifts \in 0 .. n :
            /\ Shr(l, shifts) = {}
            /\ \A k \in 0 .. (shifts - 1) : Shr(l, k) # {}

VL_CLOG2_I(lhs) == IF lhs = {} THEN {} ELSE FromNat(CLog2Shifts(lhs, VL_IDATASIZE))
VL_CLOG2_Q(lhs) == IF lhs = {} THEN {} ELSE FromNat(CLog2Shifts(lhs, VL_QUADSIZE))

\* The wide form with the adjustment always applied
VL_CLOG2_W_roundup(words, lwp) ==
    IF BitsOf(lwp) = {} THEN {} ELSE FromNat(Max(BitsOf(lwp)) + 1)

VL_CLOG2_W(words, lwp) ==
    LET adjust == IF VL_COUNTONES_W(words, lwp) = {0} THEN 0 ELSE 1
        \* the first i, from words - 1 down, with lwp[i] != 0, and in it the
        \* first bit, from VL_EDATASIZE - 1 down, that is set
        set == {i \in 0 .. (words - 1) : lwp[i] # {}}
    IN  IF set = {} THEN {}
        ELSE FromNat(Max(set) * VL_EDATASIZE + Max(lwp[Max(set)]) + adjust)

Do_VL_CLOG2_I ==
    /\ arg.n = 1
    /\ Call("VL_CLOG2_I", VL_CLOG2_I(arg.x[0]))
Do_VL_CLOG2_Q ==
    /\ arg.n = 2
    /\ Call("VL_CLOG2_Q", VL_CLOG2_Q(VL_SET_QW(arg.x)))
Do_VL_CLOG2_W ==
    /\ arg.n >= 1
    /\ Call("VL_CLOG2_W", VL_CLOG2_W(arg.n, arg.x))

NextClog2 ==
    \/ Do_VL_CLOG2_I
    \/ Do_VL_CLOG2_Q
    \/ Do_VL_CLOG2_W

SpecClog2 == InitCount /\ [][NextClog2]_vars

\* x <= 2^n for the value x given by its set of one bits
AtMostPow2(x, n) == x = {n} \/ \A b \in x : b < n
\* The smallest n with 2^n >= x
CeilLog2(x) ==
    CHOOSE n \in 0 .. (VL_EDATASIZE * MaxWords + 1) :
        /\ AtMostPow2(x, n)
        /\ \A m \in 0 .. (n - 1) : ~AtMostPow2(x, m)

\* C21: each form returns 0 for x = 0 and otherwise the smallest n with
\* 2^n >= x, so a power of two, 1 included, is not rounded up; the wide form
\* agrees with VL_CLOG2_I on one word and takes its highest bit from any word
C21_CeilingLog2 ==
    pc # "start" =>
        /\ out = FromNat(CeilLog2(BitsOf(arg.x)))
        /\ BitsOf(arg.x) = {} => out = {}
        /\ BitsOf(arg.x) = {0} => out = {}
        /\ (pc = "VL_CLOG2_W" /\ arg.n = 1) => out = VL_CLOG2_I(arg.x[0])

\* 2^95: one bit, in the top word of three, so the result is exactly 95
C21_Witness ==
    /\ pc = "VL_CLOG2_W"
    /\ arg.n = 3
    /\ BitsOf(arg.x) = {3 * VL_EDATASIZE - 1}
    /\ out = FromNat(3 * VL_EDATASIZE - 1)

\* ------------------------------------------------------------------------
\* Wide multiply

MulWidths == {8, 32, 33, 64, 65, 96, 100, 128}
\* Operands of all the words of a value of W bits: clean ones, and ones with
\* bits at and above W
MulOperands(W) ==
    LET n == VL_EDATASIZE * VL_WORDS_I(W)
    IN  { {}, {0}, 0 .. (W - 1), {W - 1}, 0 .. (W - 2),
          {i \in 0 .. (W - 1) : i % 2 = 0},
          0 .. (n - 1), {n - 1}, {i \in 0 .. (n - 1) : i % 2 = 1} }

InitMul ==
    /\ pc = "start"
    /\ arg \in UNION {{[W |-> W, a |-> a, b |-> b] :
                          a \in MulOperands(W), b \in MulOperands(W)} :
                      W \in {w \in MulWidths : VL_WORDS_I(w) <= MaxWords}}
    /\ out = <<>>

MulIsClean == arg.a \subseteq 0 .. (arg.W - 1) /\ arg.b \subseteq 0 .. (arg.W - 1)

Do_VL_MUL_W_any ==
    /\ VL_WORDS_I(arg.W) >= 1
    /\ Call("VL_MUL_W",
            VL_MUL_W(VL_WORDS_I(arg.W), Dirty(VL_WORDS_I(arg.W)),
                     WordsOf(arg.a, VL_WORDS_I(arg.W)),
                     WordsOf(arg.b, VL_WORDS_I(arg.W))))
Do_VL_MULS_WWW_clean ==
    /\ MulIsClean
    /\ Call("VL_MULS_WWW",
            VL_MULS_WWW(arg.W, Dirty(VL_WORDS_I(arg.W)),
                        WordsOf(arg.a, VL_WORDS_I(arg.W)),
                        WordsOf(arg.b, VL_WORDS_I(arg.W))))

NextMul ==
    \/ Do_VL_MUL_W_any
    \/ Do_VL_MULS_WWW_clean

SpecMul == InitMul /\ [][NextMul]_vars

\* C22: VL_MUL_W on n words writes (a * b) mod 2^(32n), whatever the words
\* hold; for operands clean at W the result masked to W is (a * b) mod 2^W;
\* VL_MULS_WWW masked to lbits is VL_MUL_W masked to lbits
C22_WideMultiply ==
    /\ pc = "VL_MUL_W" =>
         /\ DOMAIN out = 0 .. (VL_WORDS_I(arg.W) - 1)
         /\ BitsOf(out) = Mul(arg.a, arg.b, VL_EDATASIZE * VL_WORDS_I(arg.W))
         /\ MulIsClean => Masked(arg.W, out) = Mul(arg.a, arg.b, arg.W)
    /\ pc = "VL_MULS_WWW" =>
         /\ Masked(arg.W, out) = Mul(arg.a, arg.b, arg.W)
         /\ Masked(arg.W, out) =
              Masked(arg.W, VL_MUL_W(VL_WORDS_I(arg.W), Dirty(VL_WORDS_I(arg.W)),
                                     WordsOf(arg.a, VL_WORDS_I(arg.W)),
                                     WordsOf(arg.b, VL_WORDS_I(arg.W))))

\* (2^96 - 1)^2 mod 2^96 = 1: every partial product carries into the words
\* above it, and all of it cancels down to the lowest bit
C22_Witness ==
    /\ pc = "VL_MUL_W"
    /\ arg.W = 96
    /\ arg.a = 0 .. 95 /\ arg.b = 0 .. 95
    /\ BitsOf(out) = {0}

\* ------------------------------------------------------------------------
\* The words _vl_insert_WI stores into

\* The indices i of the assignments iowp[i] = ... that one call executes
_vl_insert_WI_stores(hbit, lbit, rbits) ==
    LET hoffset == VL_BITBIT_E(hbit)
        loffset == VL_BITBIT_E(lbit)
        roffset == VL_BITBIT_E(rbits)
        hword == VL_BITWORD_E(hbit)
        lword == VL_BITWORD_E(lbit)
        rword == VL_BITWORD_E(rbits)
    IN  IF hoffset = VL_SIZEBITS_E /\ loffset = 0 THEN {lword}
        ELSE IF hword = lword THEN {lword}
        ELSE IF ~(hword = rword /\ roffset = 0) THEN {lword, hword}
        ELSE {lword}

StoreDstWidths == {33, 40, 64, 65, 96, 100}
StoreLsbs(rbits) ==
    {l \in {0, 4, 31, 32, 36, 60, 63, 64, rbits - 8, rbits - 1} : l >= 0 /\ l < rbits}
StoreWidths == {1, 8, 29, VL_IDATASIZE}

InitStore ==
    /\ pc = "start"
    /\ arg \in UNION {UNION {UNION {
           {[rbits |-> rbits, lo |-> lo, width |-> width, x |-> x, v |-> v,
             memwords |-> VL_WORDS_I(rbits) + 1, beyond |-> beyond] :
                x \in {{}, 0 .. (rbits - 1)},
                v \in {{}, IBits, {i \in IBits : i % 2 = 0}},
                beyond \in {{}, BeyondBits(rbits, VL_WORDS_I(rbits) + 1)}} :
           width \in StoreWidths} :
           lo \in StoreLsbs(rbits)} : rbits \in StoreDstWidths}
    /\ out = <<>>

Do__vl_insert_WI ==
    /\ arg.lo < arg.rbits
    /\ Call("_vl_insert_WI",
            [iowp |-> _vl_insert_WI(InsertMemory, arg.v, arg.lo + arg.width - 1,
                                    arg.lo, arg.rbits),
             stores |-> _vl_insert_WI_stores(arg.lo + arg.width - 1, arg.lo,
                                             arg.rbits)])
Do_VL_ASSIGNSEL_WI_stores ==
    /\ arg.lo < arg.rbits
    /\ Call("VL_ASSIGNSEL_WI",
            [iowp |-> VL_ASSIGNSEL_WI(arg.rbits, arg.width, arg.lo, InsertMemory,
                                      arg.v),
             stores |-> _vl_insert_WI_stores(arg.lo + arg.width - 1, arg.lo,
                                             arg.rbits)])

NextStore ==
    \/ Do__vl_insert_WI
    \/ Do_VL_ASSIGNSEL_WI_stores

SpecStore == InitStore /\ [][NextStore]_vars

\* C23 as stated: with lbit < rbits and lbit <= hbit < lbit + 32, whether or
\* not rbits is a multiple of 32, _vl_insert_WI stores into no word at an
\* index >= words(rbits)
C23_Original ==
    pc # "start" => out.stores \subseteq 0 .. (VL_WORDS_I(arg.rbits) - 1)

\* A 32-bit insert at bit 36 of a 40-bit destination: the high part goes
\* into word 2 of a buffer of two words, and changes what was there
C23_Witness ==
    /\ pc = "_vl_insert_WI"
    /\ arg.rbits = 40 /\ arg.lo = 36 /\ arg.width = VL_IDATASIZE
    /\ arg.v = IBits /\ arg.beyond = {}
    /\ out.stores = {1, 2}
    /\ out.iowp[2] = 0 .. 3

\* Every word that holds a new value is one of the stored words
StoresCoverChanges ==
    pc # "start" =>
        \A i \in DOMAIN out.iowp : out.iowp[i] # InsertMemory[i] => i \in out.stores
\* The guard of line 1341: a destination of whole words is never overrun
StoreStaysInWholeWords ==
    (pc # "start" /\ arg.rbits % VL_EDATASIZE = 0)
        => out.stores \subseteq 0 .. (VL_WORDS_I(arg.rbits) - 1)
\* When the words are not whole, the overrun happens exactly when the range
\* crosses into the word after the one that holds bit rbits
StoreOverrunsExactlyWhen ==
    (pc # "start" /\ arg.rbits % VL_EDATASIZE # 0)
        => ((out.stores \subseteq 0 .. (VL_WORDS_I(arg.rbits) - 1))
              <=> VL_BITWORD_E(arg.lo + arg.width - 1) <= VL_BITWORD_E(arg.rbits))

\* ------------------------------------------------------------------------
\* Cleanliness of the wide left shift (under SpecShift)

\* C24 as stated: for a clean lhs of obits bits and rd < obits, the output
\* of VL_SHIFTL_WWI has no bit at a position >= obits, for shift amounts
\* that are multiples of 32 and for those that are not
C24_Original ==
    (pc = "VL_SHIFTL_WWI" /\ arg.rd < arg.W) => out \subseteq 0 .. (arg.W - 1)

\* 68 bits of ones shifted left by 64: the top word is a copy of the lowest
\* word of lhs, all 32 bits of it
C24_Witness ==
    /\ pc = "VL_SHIFTL_WWI"
    /\ arg.W = 68 /\ arg.rd = 64
    /\ arg.x = 0 .. 67
    /\ out = 64 .. 95

\* The branches that do leave a clean output: a shift that is not a multiple
\* of 32 (the insert stops at bit obits - 1), a shift by 0 (a copy of the
\* clean lhs) and a width of whole words
ShiftLeftCleanUnlessWordShift ==
    (/\ pc = "VL_SHIFTL_WWI"
     /\ arg.rd < arg.W
     /\ \/ arg.rd % VL_EDATASIZE # 0
        \/ arg.rd = 0
        \/ arg.W % VL_EDATASIZE = 0)
        => out \subseteq 0 .. (arg.W - 1)

\* ------------------------------------------------------------------------
\* Lint ignores of one file (V3ConfigFile)
\*
\* out holds the object: m_ignLines as the sequence in which the multiset
\* iterates, m_lastIgnore.it as an index into it (Len + 1 is end()), and
\* m_lastIgnore.lineno; with them the warning state of the file line that
\* applyIgnores works on, and the entries its last call applied, in order.
\* arg holds the arguments of the last call.

MaxIgnores == 3
MaxLine == 3
ErrorCodes == {0, 1}
IgnoreEntries ==
    [m_lineno : 1 .. MaxLine, m_code : ErrorCodes, m_on : BOOLEAN]

\* The comparison with the final test turned round: "off" before "on"
IgnLess_off_first(lh, rh) ==
    IF lh.m_lineno < rh.m_lineno THEN TRUE
    ELSE IF lh.m_lineno > rh.m_lineno THEN FALSE
    ELSE IF lh.m_code < rh.m_code THEN TRUE
    ELSE IF lh.m_code > rh.m_code THEN FALSE
    ELSE ~lh.m_on /\ rh.m_on

\* V3ConfigIgnoresLine::operator<
IgnLess(lh, rh) ==
    IF lh.m_lineno < rh.m_lineno THEN TRUE
    ELSE IF lh.m_lineno > rh.m_lineno THEN FALSE
    ELSE IF lh.m_code < rh.m_code THEN TRUE
    ELSE IF lh.m_code > rh.m_code THEN FALSE
    ELSE lh.m_on /\ ~rh.m_on

\* std::multiset::insert: before the first element that the new one is less
\* than, after every element equivalent to it
MultisetInsert(lines, entry) ==
    LET pos == Cardinality({i \in 1 .. Len(lines) : ~IgnLess(entry, lines[i])})
    IN  SubSeq(lines, 1, pos) \o <<entry>> \o SubSeq(lines, pos + 1, Len(lines))

\* FileLine::warnOn(code, on)
warnOn(warn, code, on) == [warn EXCEPT ![code] = on]

InitConfigFile ==
    /\ pc = "V3ConfigFile"
    /\ arg = <<>>
    /\ out = [m_ignLines |-> <<>>, it |-> 1, lineno |-> -1,
              warn |-> [c \in ErrorCodes |-> TRUE], applied |-> <<>>,
              on_after_off |-> FALSE]

addIgnore(code, lineno, on) ==
    /\ Len(out.m_ignLines) < MaxIgnores
    /\ pc' = "addIgnore"
    /\ arg' = [m_code |-> code, m_lineno |-> lineno, m_on |-> on]
    /\ out' = [out EXCEPT
                 !.m_ignLines =
                     MultisetInsert(@, [m_lineno |-> lineno, m_code |-> code,
                                        m_on |-> on]),
                 !.it = 1,
                 !.on_after_off =
                     @ \/ (on /\ \E i \in 1 .. Len(out.m_ignLines) :
                                    out.m_ignLines[i] =
                                        [m_lineno |-> lineno, m_code |-> code,
                                         m_on |-> FALSE])]

\* for (; it != end(); ++it) { if (it->m_lineno > curlineno) break; warnOn }
RECURSIVE ApplyLoop(_, _)
ApplyLoop(o, curlineno) ==
    IF o.it > Len(o.m_ignLines) THEN o
    ELSE IF o.m_ignLines[o.it].m_lineno > curlineno THEN o
    ELSE ApplyLoop([o EXCEPT
                      !.warn = warnOn(@, o.m_ignLines[o.it].m_code,
                                      o.m_ignLines[o.it].m_on),
                      !.applied = Append(@, o.m_ignLines[o.it]),
                      !.it = @ + 1],
                   curlineno)

\* The file line spans lineno .. lastLineno
applyIgnores(lineno, lastLineno) ==
    /\ out.lineno # lineno
    /\ pc' = "applyIgnores"
    /\ arg' = [lineno |-> lineno, lastLineno |-> lastLineno]
    /\ out' = [ApplyLoop([out EXCEPT !.applied = <<>>], lastLineno)
                  EXCEPT !.lineno = lastLineno]
applyIgnores_same_line(lineno, lastLineno) ==
    /\ out.lineno = lineno
    /\ pc' = "applyIgnores same line"
    /\ arg' = [lineno |-> lineno, lastLineno |-> lastLineno]
    /\ out' = [out EXCEPT !.applied = <<>>]

Do_addIgnore ==
    \E code \in ErrorCodes, lineno \in 1 .. MaxLine, on \in BOOLEAN :
        addIgnore(code, lineno, on)
Do_applyIgnores ==
    \E lineno \in 1 .. MaxLine, more \in 0 .. 1 :
        applyIgnores(lineno, lineno + more)
Do_applyIgnores_same_line ==
    \E lineno \in 1 .. MaxLine, more \in 0 .. 1 :
        applyIgnores_same_line(lineno, lineno + more)

NextConfigFile ==
    \/ Do_addIgnore
    \/ Do_applyIgnores
    \/ Do_applyIgnores_same_line

SpecConfigFile == InitConfigFile /\ [][NextConfigFile]_vars

\* The last entry of the sequence s that is for the line and the code
LastFor(s, line, code) ==
    s[Max({i \in 1 .. Len(s) : s[i].m_lineno = line /\ s[i].m_code = code})]

\* C25: one applyIgnores applies the entries in increasing line order, for
\* one line and one code "on" before "off" however addIgnore was called, so
\* the code whose last line up to the current one has both ends up off; no
\* entry of a line greater than the current line is applied
C25_IgnoreOrdering ==
    pc = "applyIgnores" =>
        /\ \A i, j \in 1 .. Len(out.applied) :
             i < j =>
               /\ out.applied[i].m_lineno <= out.applied[j].m_lineno
               /\ (/\ out.applied[i].m_lineno = out.applied[j].m_lineno
                   /\ out.applied[i].m_code = out.applied[j].m_code)
                    => (out.applied[i].m_on \/ ~out.applied[j].m_on)
        /\ \A i \in 1 .. Len(out.applied) :
             out.applied[i].m_lineno <= arg.lastLineno
        /\ \A i \in 1 .. Len(out.applied) :
             LET e == out.applied[i]
             IN  (/\ e.m_on
                  /\ \E j \in 1 .. Len(out.applied) :
                        out.applied[j] = [e EXCEPT !.m_on = FALSE])
                   => /\ ~LastFor(out.applied, e.m_lineno, e.m_code).m_on
                      /\ (\A k \in 1 .. Len(out.applied) :
                             out.applied[k].m_code = e.m_code
                                => out.applied[k].m_lineno <= e.m_lineno)
                           => ~out.warn[e.m_code]

\* "off" was added for line 2 before "on" was; the call for line 2 applied
\* "on" first and "off" last, left the entry of line 3 alone, and the code
\* is off
C25_Witness ==
    /\ pc = "applyIgnores"
    /\ out.on_after_off
    /\ arg.lastLineno = 2
    /\ out.m_ignLines =
         << [m_lineno |-> 2, m_code |-> 1, m_on |-> TRUE],
            [m_lineno |-> 2, m_code |-> 1, m_on |-> FALSE],
            [m_lineno |-> 3, m_code |-> 1, m_on |-> TRUE] >>
    /\ out.applied = SubSeq(out.m_ignLines, 1, 2)
    /\ ~out.warn[1]

\* ------------------------------------------------------------------------
\* Packing a queue of elements into one value, and unpacking it again
\*
\* A queue of n elements is a function on 0 .. n - 1 (the empty queue <<>>
\* for n = 0); q.at(i) is q[i].

\* ret |= static_cast<IData>(q.at(q.size() - 1 - i)) << (i * lbits)
VL_PACK_I_RI(obits, lbits, q) ==
    LET size == Len(q)
    IN  UNION {Shl(q[size - i], i * lbits, VL_IDATASIZE) : i \in 0 .. (size - 1)}

\* The loop of the wide forms: _vl_insert_WI / _WQ / _WW, as form names,
\* (owp, q.at(q.size() - 1 - i), i * lbits + lbits - 1, i * lbits) for
\* i = 0 .. q.size() - 1
RECURSIVE PackInserts(_, _, _, _, _)
PackInserts(form, owp, lbits, q, i) ==
    IF i >= Len(q) THEN owp
    ELSE The({PackInserts(form, o, lbits, q, i + 1) :
                 o \in {IF form = "WI"
                        THEN _vl_insert_WI(owp, q[Len(q) - i],
                                           i * lbits + lbits - 1, i * lbits, 0)
                        ELSE IF form = "WQ"
                        THEN _vl_insert_WQ(owp, q[Len(q) - i],
                                           i * lbits + lbits - 1, i * lbits, 0)
                        ELSE _vl_insert_WW(owp, q[Len(q) - i],
                                           i * lbits + lbits - 1, i * lbits, 0)}})

VL_PACK_W_RI(obits, lbits, owp, q) ==
    PackInserts("WI", VL_MEMSET_ZERO_W(owp, 1, VL_WORDS_I(obits) - 1),
                lbits, q, 0)
VL_PACK_W_RQ(obits, lbits, owp, q) ==
    PackInserts("WQ", VL_MEMSET_ZERO_W(owp, 1, VL_WORDS_I(obits) - 1),
                lbits, q, 0)
VL_PACK_W_RW(obits, lbits, owp, q) ==
    PackInserts("WW", VL_MEMSET_ZERO_W(owp, 1, VL_WORDS_I(obits) - 1),
                lbits, q, 0)

\* Elements clean at lbits that tell their positions apart
PackElems(lbits) == {0 .. (lbits - 1), {0}, {lbits - 1}}
PackElemWidths == {4, 8, 16, 25, 32, 33, 64, 65, 96}
\* Queues of n elements as sequences, element 0 first
PackQueues(lbits, n) == [1 .. n -> PackElems(lbits)]

InitPack ==
    /\ pc = "start"
    /\ arg \in UNION {UNION {UNION {
           {[lbits |-> lbits, n |-> n, obits |-> obits, q |-> q, prior |-> prior] :
                q \in PackQueues(lbits, n), prior \in {{}, IBits}} :
           obits \in {o \in {n * lbits, 65, 96, VL_EDATASIZE * MaxWords} :
                         /\ o >= 1
                         /\ o >= n * lbits}} :
           n \in 0 .. MaxDepth} : lbits \in PackElemWidths}
    /\ out = <<>>

PackBuffer == [i \in 0 .. (VL_WORDS_I(arg.obits) - 1) |-> arg.prior]

Do_VL_PACK_I_RI ==
    /\ arg.n >= 1
    /\ arg.obits = arg.n * arg.lbits
    /\ arg.obits <= VL_IDATASIZE
    /\ Call("VL_PACK_I_RI",
            [packed |-> VL_PACK_I_RI(arg.obits, arg.lbits, arg.q)])
Do_VL_PACK_W_RI ==
    /\ arg.lbits <= VL_IDATASIZE
    /\ arg.obits > VL_QUADSIZE
    /\ Call("VL_PACK_W_RI",
            [packed |-> VL_PACK_W_RI(arg.obits, arg.lbits, PackBuffer, arg.q)])
Do_VL_PACK_W_RQ ==
    /\ arg.lbits > VL_IDATASIZE
    /\ arg.lbits <= VL_QUADSIZE
    /\ arg.obits > VL_QUADSIZE
    /\ Call("VL_PACK_W_RQ",
            [packed |-> VL_PACK_W_RQ(arg.obits, arg.lbits, PackBuffer, arg.q)])
Do_VL_PACK_W_RW ==
    /\ arg.lbits > VL_QUADSIZE
    /\ arg.obits > VL_QUADSIZE
    /\ Call("VL_PACK_W_RW",
            [packed |->
                VL_PACK_W_RW(arg.obits, arg.lbits, PackBuffer,
                             [e \in 1 .. arg.n |->
                                 WordsOf(arg.q[e], VL_WORDS_I(arg.lbits))])])

\* The unpacked queue as a sequence, element 0 first
AsQueue(f) == [e \in 1 .. (Max(DOMAIN f) + 1) |-> f[e - 1]]

Do_VL_UNPACK_RI_I_back ==
    /\ pc = "VL_PACK_I_RI"
    /\ pc' = "VL_UNPACK_RI_I"
    /\ out' = [packed |-> out.packed,
               q |-> AsQueue(VL_UNPACK_RI_I(arg.lbits, arg.obits, out.packed))]
    /\ UNCHANGED arg
Do_VL_UNPACK_RI_W_back ==
    /\ pc = "VL_PACK_W_RI"
    /\ arg.n >= 1
    /\ arg.obits = arg.n * arg.lbits
    /\ pc' = "VL_UNPACK_RI_W"
    /\ out' = [packed |-> out.packed,
               q |-> AsQueue(VL_UNPACK_RI_W(arg.lbits, arg.obits, out.packed))]
    /\ UNCHANGED arg
\* The packed value of one word, handed to the wide-source form
Do_VL_UNPACK_RI_W_one_word ==
    /\ pc = "VL_PACK_I_RI"
    /\ pc' = "VL_UNPACK_RI_W of one word"
    /\ out' = [packed |-> out.packed,
               q |-> AsQueue(VL_UNPACK_RI_W(arg.lbits, arg.obits,
                                            WordsOf(out.packed, 1)))]
    /\ UNCHANGED arg

NextPack ==
    \/ Do_VL_PACK_I_RI
    \/ Do_VL_PACK_W_RI
    \/ Do_VL_PACK_W_RQ
    \/ Do_VL_PACK_W_RW
    \/ Do_VL_UNPACK_RI_I_back
    \/ Do_VL_UNPACK_RI_W_back
    \/ Do_VL_UNPACK_RI_W_one_word

SpecPack == InitPack /\ [][NextPack]_vars

Reversed(q) == [e \in 1 .. Len(q) |-> q[Len(q) + 1 - e]]

\* C26 as stated: unpacking the packed value of n * lbits bits returns the
\* queue element for element in the same order, for the narrow pair and for
\* the wide pair, and the wide-source unpack of a packed value gives the
\* same queue as the narrow-source unpack
C26_Original ==
    /\ pc \in {"VL_UNPACK_RI_I", "VL_UNPACK_RI_W"} => out.q = arg.q
    /\ pc = "VL_UNPACK_RI_W of one word" =>
          out.q = AsQueue(VL_UNPACK_RI_I(arg.lbits, arg.obits, out.packed))

\* The wide round trip of the queue (1, 2^24 | ... ) of four elements of 25
\* bits that differ: the queue has come back in the opposite order
C26_Witness ==
    /\ pc = "VL_UNPACK_RI_W"
    /\ arg.lbits = 25 /\ arg.n = 4
    /\ arg.q = <<{0}, {24}, 0 .. 24, {0}>>
    /\ out.q = <<{0}, 0 .. 24, {24}, {0}>>

\* What does hold: the narrow pair is a round trip, and the wide pair
\* returns the queue reversed
PackUnpackNarrowRoundTrip ==
    pc = "VL_UNPACK_RI_I" => out.q = arg.q
PackUnpackWideReverses ==
    pc \in {"VL_UNPACK_RI_W", "VL_UNPACK_RI_W of one word"} => out.q = Reversed(arg.q)

\* The value the elements give: q.at(q.size() - 1 - i) at bit i * lbits,
\* zero everywhere else
PackedValue ==
    UNION {{b + (arg.n - e) * arg.lbits : b \in arg.q[e]} : e \in 1 .. arg.n}
WidePackOps == {"VL_PACK_W_RI", "VL_PACK_W_RQ", "VL_PACK_W_RW"}

\* C27 as stated: whatever the output buffer held, and for a queue of any
\* size, the empty one and one of fewer than 32 bits included, the words
\* that VL_PACK_W_RI / RQ / RW write hold the elements and zeros elsewhere
C27_Original ==
    pc \in WidePackOps => BitsOf(out.packed) = PackedValue

\* One element of 8 bits packed into a buffer that held ones: bits 8 .. 31
\* of word 0 are still what the buffer held
C27_Witness ==
    /\ pc = "VL_PACK_W_RI"
    /\ arg.lbits = 8 /\ arg.n = 1 /\ arg.obits = 65
    /\ arg.q = <<{0}>> /\ arg.prior = IBits
    /\ BitsOf(out.packed) = {0} \cup (8 .. 31)

\* What does hold: the words above word 0 never depend on the buffer, and
\* word 0 does not once the elements cover 32 bits; below that, word 0
\* keeps the buffer's bits above the elements
PackIndependentFromWord1 ==
    pc \in WidePackOps =>
        /\ BitsOf(out.packed) \ IBits = PackedValue \ IBits
        /\ arg.n * arg.lbits >= VL_EDATASIZE => BitsOf(out.packed) = PackedValue
        /\ arg.n * arg.lbits < VL_EDATASIZE =>
              BitsOf(out.packed) =
                  PackedValue \cup (arg.prior \ (0 .. (arg.n * arg.lbits - 1)))

\* ------------------------------------------------------------------------
\* Counting the bits that match a control set

VL_COUNTBITS_I(lbits, lhs, ctrl0, ctrl1, ctrl2) ==
    LET ctrlSum == Cardinality({c \in {<<0, ctrl0>>, <<1, ctrl1>>, <<2, ctrl2>>} :
                                   0 \in c[2]})
        \* (lbits == 32) ? -1 : ((1 << lbits) - 1)
        mask == IF lbits = 32 THEN IBits ELSE 0 .. (lbits - 1)
    IN  IF ctrlSum = 3 THEN VL_COUNTONES_I(lhs)
        ELSE IF ctrlSum = 0
        THEN VL_COUNTONES_I(Not(lhs, VL_IDATASIZE) \cap mask)
        ELSE FromNat(IF lbits = 32 THEN 32 ELSE lbits)
VL_COUNTBITS_Q(lbits, lhs, ctrl0, ctrl1, ctrl2) ==
    Add(VL_COUNTBITS_I(32, LoWord(lhs), ctrl0, ctrl1, ctrl2),
        VL_COUNTBITS_I(lbits - 32, HiWord(lhs), ctrl0, ctrl1, ctrl2),
        VL_IDATASIZE)
\* for (i = 0; i < words; ++i) {
\*     if (i == words - 1) wordLbits = lbits % 32;
\*     r += VL_COUNTBITS_E(wordLbits, lwp[i], ctrl0, ctrl1, ctrl2); }
VL_COUNTBITS_W(lbits, words, lwp, ctrl0, ctrl1, ctrl2) ==
    LET RECURSIVE Loop(_, _)
        Loop(r, i) ==
            IF i >= words THEN r
            ELSE The({Loop(s, i + 1) :
                         s \in {Add(r,
                                    VL_COUNTBITS_I(IF i = words - 1 THEN lbits % 32
                                                                   ELSE 32,
                                                   lwp[i], ctrl0, ctrl1, ctrl2),
                                    VL_EDATASIZE)}})
    IN  Loop({}, 0)

InitCountBits ==
    /\ pc = "start"
    /\ arg \in UNION {
           {[lbits |-> lbits, x |-> x, ctrl0 |-> c0, ctrl1 |-> c1, ctrl2 |-> c2] :
                x \in Patterns(lbits),
                c0 \in {{}, {0}}, c1 \in {{}, {0}}, c2 \in {{}, {0}}} :
           lbits \in QuadWidths \cup WideWidths}
    /\ out = <<>>

Do_VL_COUNTBITS_Q ==
    /\ arg.lbits <= VL_QUADSIZE
    /\ Call("VL_COUNTBITS_Q",
            VL_COUNTBITS_Q(arg.lbits, arg.x, arg.ctrl0, arg.ctrl1, arg.ctrl2))
Do_VL_COUNTBITS_W ==
    /\ arg.lbits > VL_QUADSIZE
    /\ Call("VL_COUNTBITS_W",
            VL_COUNTBITS_W(arg.lbits, VL_WORDS_I(arg.lbits),
                           WordsOf(arg.x, VL_WORDS_I(arg.lbits)),
                           arg.ctrl0, arg.ctrl1, arg.ctrl2))

NextCountBits ==
    \/ Do_VL_COUNTBITS_Q
    \/ Do_VL_COUNTBITS_W

SpecCountBits == InitCountBits /\ [][NextCountBits]_vars

\* The count over exactly lbits bits
CountBitsExpected ==
    IF arg.ctrl0 = {} /\ arg.ctrl1 = {} /\ arg.ctrl2 = {}
    THEN arg.lbits - Cardinality(arg.x)
    ELSE IF arg.ctrl0 # {} /\ arg.ctrl1 # {} /\ arg.ctrl2 # {}
    THEN Cardinality(arg.x)
    ELSE arg.lbits

\* C28 as stated: for every wide lbits, multiples of 32 included, and every
\* lbits in 33 .. 64, the count is lbits - popcount(x) with the three
\* control bits 0, popcount(x) with all three 1, and lbits when they differ
C28_Original ==
    pc # "start" => out = FromNat(CountBitsExpected)

\* The zeros of a 96-bit 0: only the 64 of the first two words are counted
C28_Witness ==
    /\ pc = "VL_COUNTBITS_W"
    /\ arg.lbits = 96 /\ arg.x = {}
    /\ arg.ctrl0 = {} /\ arg.ctrl1 = {} /\ arg.ctrl2 = {}
    /\ out = FromNat(64)

\* What does hold: the two-word form at every width, the wide form at a
\* width that is not a multiple of 32, and the count of ones at any width;
\* at a multiple of 32 the last word counts as a word of width 0
CountBitsExceptWholeWords ==
    pc # "start" =>
        /\ (\/ pc = "VL_COUNTBITS_Q"
            \/ arg.lbits % 32 # 0
            \/ (arg.ctrl0 # {} /\ arg.ctrl1 # {} /\ arg.ctrl2 # {}))
             => out = FromNat(CountBitsExpected)
        /\ (/\ pc = "VL_COUNTBITS_W"
            /\ arg.lbits % 32 = 0
            /\ arg.ctrl0 = {} /\ arg.ctrl1 = {} /\ arg.ctrl2 = {})
             => out = FromNat((arg.lbits - 32)
                                - Cardinality(arg.x \cap (0 .. (arg.lbits - 33))))

\* ------------------------------------------------------------------------
\* Range insert inside the destination: what it leaves alone

\* The indices i of the assignments iowp[i] = ... that one call executes
_vl_insert_WW_stores(hbit, lbit, rbits) ==
    LET loffset == VL_BITBIT_E(lbit)
        lword == VL_BITWORD_E(lbit)
        hword == VL_BITWORD_E(hbit)
        words == VL_WORDS_I(hbit - lbit + 1)
    IN  IF loffset = 0
        THEN {lword + i : i \in 0 .. (words - 2)} \cup {hword}
        ELSE {lword + i : i \in 0 .. (words - 1)}
               \cup {lword + i + 1 : i \in {j \in 0 .. (words - 1) : lword + j + 1 <= hword}}

FrameDstWidths == {40, 64, 65, 96, 100}
FrameLsbs == {0, 4, 31, 32, 36, 60, 64}
FrameWidths == {1, 8, 28, 32, 33, 40, 64, 65}

\* Any prior contents of the destination's words, a possibly dirty source,
\* and rbits passed either as the destination's width or left at 0
InitFrame ==
    /\ pc = "start"
    /\ arg \in UNION {UNION {UNION {
           {[rbits |-> rbits, lo |-> lo, width |-> width, x |-> x, v |-> v,
             memwords |-> VL_WORDS_I(rbits) + 1, beyond |-> beyond, rb |-> rb] :
                x \in {{}, 0 .. (VL_EDATASIZE * VL_WORDS_I(rbits) - 1),
                       {i \in 0 .. (rbits - 1) : i % 2 = 0}},
                v \in {{}, 0 .. (VL_EDATASIZE * VL_WORDS_I(width) - 1),
                       {i \in 0 .. (width - 1) : i % 2 = 1}},
                beyond \in {{}, BeyondBits(rbits, VL_WORDS_I(rbits) + 1)},
                rb \in {0, rbits}} :
           width \in {w \in FrameWidths : lo + w - 1 < rbits}} :
           lo \in FrameLsbs} : rbits \in FrameDstWidths}
    /\ out = <<>>

Do__vl_insert_WI_inside ==
    /\ arg.width <= VL_IDATASIZE
    /\ Call("_vl_insert_WI",
            [iowp |-> _vl_insert_WI(InsertMemory, arg.v, arg.lo + arg.width - 1,
                                    arg.lo, arg.rb),
             stores |-> _vl_insert_WI_stores(arg.lo + arg.width - 1, arg.lo, arg.rb)])
Do__vl_insert_WQ_inside ==
    /\ arg.width <= VL_QUADSIZE
    /\ Call("_vl_insert_WQ",
            [iowp |-> _vl_insert_WQ(InsertMemory, arg.v, arg.lo + arg.width - 1,
                                    arg.lo, arg.rb),
             stores |-> _vl_insert_WW_stores(arg.lo + arg.width - 1, arg.lo, arg.rb)])
Do__vl_insert_WW_inside ==
    /\ arg.lo + arg.width - 1 < arg.rbits
    /\ Call("_vl_insert_WW",
            [iowp |-> _vl_insert_WW(InsertMemory,
                                    WordsOf(arg.v, VL_WORDS_I(arg.width)),
                                    arg.lo + arg.width - 1, arg.lo, arg.rb),
             stores |-> _vl_insert_WW_stores(arg.lo + arg.width - 1, arg.lo, arg.rb)])

NextFrame ==
    \/ Do__vl_insert_WI_inside
    \/ Do__vl_insert_WQ_inside
    \/ Do__vl_insert_WW_inside

SpecFrame == InitFrame /\ [][NextFrame]_vars

FrameRange == arg.lo .. (arg.lo + arg.width - 1)

\* C29: after an insert at lbit <= hbit < rbits every bit of the memory
\* outside [hbit:lbit] has its prior value, whatever the destination held,
\* and the only words stored into are those that hold bits lbit .. hbit
C29_InsertFrame ==
    pc # "start" =>
        /\ BitsOf(out.iowp) \ FrameRange = BitsOf(InsertMemory) \ FrameRange
        /\ out.stores \subseteq
             VL_BITWORD_E(arg.lo) .. VL_BITWORD_E(arg.lo + arg.width - 1)
        /\ \A i \in DOMAIN out.iowp :
             out.iowp[i] # InsertMemory[i] => i \in out.stores

\* Zeros inserted at [43:36] of a 100-bit destination of ones, across no
\* word boundary: word 1 keeps its bits 0 .. 3 and 12 .. 31
C29_Witness ==
    /\ pc = "_vl_insert_WI"
    /\ arg.rbits = 100 /\ arg.lo = 36 /\ arg.width = 8 /\ arg.rb = 100
    /\ arg.x = 0 .. 127 /\ arg.v = {}
    /\ out.stores = {1}
    /\ out.iowp[1] = (0 .. 3) \cup (12 .. 31)
    /\ out.iowp[0] = IBits /\ out.iowp[2] = IBits

\* ------------------------------------------------------------------------
\* V3HierBlockPlan: the usage graph of hierarchical blocks and its ordering

MaxBlocks == 3
\* A module, and the V3HierBlock made for it, is known by its number
Modules == 1 .. MaxBlocks

\* Every order in which an unordered container holding S may be iterated
RECURSIVE Orders(_)
Orders(S) ==
    IF S = {} THEN {<<>>}
    ELSE UNION {{<<b>> \o s : s \in Orders(S \ {b})} : b \in S}

\* V3HierBlock::addChild / addParent: insertion into a HierBlockSet
addChild(m_children, blockp, childp) ==
    [m_children EXCEPT ![blockp] = @ \cup {childp}]
addParent(m_parents, blockp, parentp) ==
    [m_parents EXCEPT ![blockp] = @ \cup {parentp}]

\* out.again records that some registerUsage call repeated a relation the
\* plan already held; out.sorted and out.failed are what the last
\* hierBlocksSorted returned and whether one of its UASSERTs fired
InitPlan ==
    /\ pc = "V3HierBlockPlan"
    /\ arg = <<>>
    /\ out = [m_blocks |-> {},
              m_children |-> [b \in Modules |-> {}],
              m_parents |-> [b \in Modules |-> {}],
              again |-> FALSE, sorted |-> <<>>, failed |-> FALSE]

add(modp) ==
    /\ pc' = "add"
    /\ arg' = [modp |-> modp]
    /\ out' = [out EXCEPT !.m_blocks = @ \cup {modp},
                          !.sorted = <<>>, !.failed = FALSE]

\* The parent must have been added; a child that was not is ignored
registerUsage(parentp, childp) ==
    /\ parentp \in out.m_blocks
    /\ pc' = "registerUsage"
    /\ arg' = [parentp |-> parentp, childp |-> childp]
    /\ out' = IF childp \in out.m_blocks
              THEN [out EXCEPT
                      !.m_children = addChild(@, parentp, childp),
                      !.m_parents = addParent(@, childp, parentp),
                      !.again = @ \/ childp \in out.m_children[parentp],
                      !.sorted = <<>>, !.failed = FALSE]
              ELSE [out EXCEPT !.sorted = <<>>, !.failed = FALSE]

\* Seeded fault: a parent is emitted as soon as one child has been emitted
RECURSIVE ParentsLoop_eager(_, _, _)
ParentsLoop_eager(st, hblockp, p) ==
    IF p = <<>> \/ st.failed THEN st
    ELSE IF Head(p) \notin DOMAIN st.childrenOfHierBlock
    THEN [st EXCEPT !.failed = TRUE]
    ELSE IF hblockp \notin st.childrenOfHierBlock[Head(p)]
    THEN [st EXCEPT !.failed = TRUE]
    ELSE ParentsLoop_eager(
            [sorted |-> Append(st.sorted, Head(p)),
             childrenOfHierBlock |->
                [b \in DOMAIN st.childrenOfHierBlock \ {Head(p)} |->
                    st.childrenOfHierBlock[b]],
             failed |-> FALSE],
            hblockp, Tail(p))

\* The inner loop for one emitted block, over its parents in iteration
\* order p: the block is erased from each parent's set, and a parent whose
\* set becomes empty is emitted and leaves the map
RECURSIVE ParentsLoop(_, _, _)
ParentsLoop(st, hblockp, p) ==
    IF p = <<>> \/ st.failed THEN st
    ELSE IF Head(p) \notin DOMAIN st.childrenOfHierBlock
    THEN [st EXCEPT !.failed = TRUE]
    ELSE IF hblockp \notin st.childrenOfHierBlock[Head(p)]
    THEN [st EXCEPT !.failed = TRUE]
    ELSE ParentsLoop(
            IF st.childrenOfHierBlock[Head(p)] = {hblockp}
            THEN [sorted |-> Append(st.sorted, Head(p)),
                  childrenOfHierBlock |->
                     [b \in DOMAIN st.childrenOfHierBlock \ {Head(p)} |->
                         st.childrenOfHierBlock[b]],
                  failed |-> FALSE]
            ELSE [st EXCEPT !.childrenOfHierBlock[Head(p)] = @ \ {hblockp}],
            hblockp, Tail(p))

\* The outer loop from index i (1-based here) on: every state it can end in
RECURSIVE SortedLoop(_, _, _)
SortedLoop(plan, st, i) ==
    IF st.failed \/ i > Len(st.sorted) THEN {st}
    ELSE UNION {SortedLoop(plan, s, i + 1) :
                  s \in {ParentsLoop(st, st.sorted[i], p) :
                           p \in Orders(plan.m_parents[st.sorted[i]])}}

\* Every state the call can end in, over the iteration orders of m_blocks
\* and of the parent sets.  The first loop, over m_blocks in order it, puts
\* the blocks without children in sorted and copies the children of the
\* others
hierBlocksSorted(plan) ==
    UNION {SortedLoop(plan, s, 1) :
             s \in {[sorted |->
                        SelectSeq(it, LAMBDA b : plan.m_children[b] = {}),
                     childrenOfHierBlock |->
                        [b \in {c \in plan.m_blocks :
                                   plan.m_children[c] # {}} |->
                            plan.m_children[b]],
                     failed |-> FALSE] : it \in Orders(plan.m_blocks)}}

Do_add ==
    \E modp \in Modules : add(modp)
\* A module does not instantiate itself
Do_registerUsage ==
    \E parentp \in Modules :
        \E childp \in Modules \ {parentp} :
            registerUsage(parentp, childp)
Do_hierBlocksSorted ==
    \E r \in hierBlocksSorted(out) :
        /\ pc' = "hierBlocksSorted"
        /\ arg' = <<>>
        /\ out' = [out EXCEPT !.sorted = r.sorted, !.failed = r.failed]

NextPlan ==
    \/ Do_add
    \/ Do_registerUsage
    \/ Do_hierBlocksSorted

SpecPlan == InitPlan /\ [][NextPlan]_vars

\* No nonempty set of blocks in which every block uses another of the set
AcyclicUsage ==
    \A S \in SUBSET out.m_blocks :
        S # {} => \E b \in S : out.m_children[b] \cap S = {}

PositionsOf(b) == {i \in 1 .. Len(out.sorted) : out.sorted[i] = b}

\* C30: when the usage graph is acyclic, hierBlocksSorted fires no
\* assertion and returns every added block exactly once, each block after
\* all of its children
C30_TopologicalOrder ==
    (pc = "hierBlocksSorted" /\ AcyclicUsage) =>
        /\ ~out.failed
        /\ \A b \in out.m_blocks : Cardinality(PositionsOf(b)) = 1
        /\ \A i \in 1 .. Len(out.sorted) :
              /\ out.sorted[i] \in out.m_blocks
              /\ \A c \in out.m_children[out.sorted[i]] :
                    \E j \in 1 .. (i - 1) : out.sorted[j] = c

\* Block 1 is used by 2 and by 3, 3 also uses 2, and one relation was
\* registered twice: the order is 1, 2, 3
C30_Witness ==
    /\ pc = "hierBlocksSorted"
    /\ out.m_blocks = {1, 2, 3}
    /\ out.m_parents[1] = {2, 3}
    /\ out.m_children[3] = {1, 2}
    /\ out.again
    /\ out.sorted = <<1, 2, 3>>

\* Blocks on or above a usage cycle are never emitted, and nothing fails
CyclicUsageOmitsBlocks ==
    (pc = "hierBlocksSorted" /\ ~AcyclicUsage) =>
        /\ ~out.failed
        /\ Len(out.sorted) < Cardinality(out.m_blocks)
============================================================================
